-------------------------- MODULE RedirectDecision --------------------------
(***************************************************************************)
(* The decision the redirect hot path takes once a link has been resolved: *)
(* usecase/redirect_usecase.go, Redirect, matchGeoRule, selectABVariant,   *)
(* with the two predicates of domain/link.go it asks.                      *)
(*                                                                         *)
(* A link is a record                                                      *)
(*   left     ticks until ExpiredAt, negative once it has passed, or Never *)
(*   active   is_active                                                    *)
(*   hash     the password the stored hash was made from, or NoPassword    *)
(*   dest     DestinationURL                                               *)
(*   geo      its geo rules in priority order, [country, dest] each        *)
(*   ab       its A/B variants in creation order, [id, dest, weight] each  *)
(* and a visit is [password, country]: what the visitor submitted and what *)
(* the geo lookup of the visitor's address returned.                       *)
(***************************************************************************)
EXTENDS Integers, Sequences, FiniteSetsExt

CONSTANTS
  Never,       \* ExpiredAt = nil
  NoPassword,  \* the empty password and the empty hash
  NoCountry,   \* the empty country code: no address, or the lookup failed
  NoVariant    \* the empty ABTestID

Permanent == 301
Found     == 302

(* domain.Link.IsExpired: now is strictly after ExpiredAt. *)
IsExpired(link) == link.left # Never /\ link.left < 0

IsPasswordProtected(link) == link.hash # NoPassword

-----------------------------------------------------------------------------
(* matchGeoRule: the positions of the rules that match, the first one wins. *)
MatchingRules(rules, country) ==
  IF country = NoCountry THEN {} ELSE {i \in DOMAIN rules : rules[i].country = country}

(* selectABVariant: walk the variants until their cumulative weight exceeds *)
(* pick, a number drawn from [0, TotalWeight).                              *)
CumulativeWeight(variants, i) == MapThenSumSet(LAMBDA j : variants[j].weight, 1..i)

TotalWeight(variants) == CumulativeWeight(variants, Len(variants))

(* Slip: <= for <. *)
SelectABVariant_OffByOne(variants, pick) ==
  variants[Min({i \in DOMAIN variants : pick <= CumulativeWeight(variants, i)})]

SelectABVariant(variants, pick) ==
  variants[Min({i \in DOMAIN variants : pick < CumulativeWeight(variants, i)})]

-----------------------------------------------------------------------------
Fails(reason) == [error |-> reason]

Sends(status, dest, variant) ==
  [error |-> "none", status |-> status, dest |-> dest, variant |-> variant]

(* Expired and inactive links answer exactly as a missing slug does. *)
Gone(link) == IsExpired(link) \/ ~link.active

(* Slip: the password is asked for before expiry is looked at. *)
Refusal_PasswordFirst(link, visit) ==
  IF IsPasswordProtected(link) /\ visit.password = NoPassword THEN "password_required"
  ELSE IF Gone(link) THEN "link_not_found"
  ELSE IF ~IsPasswordProtected(link) \/ visit.password = link.hash THEN "none"
  ELSE "invalid_password"

(* Steps 3 to 5 of Redirect: why the visit gets no destination, if it does not. *)
Refusal(link, visit) ==
  IF Gone(link) THEN "link_not_found"
  ELSE IF ~IsPasswordProtected(link) \/ visit.password = link.hash THEN "none"
  ELSE IF visit.password = NoPassword THEN "password_required"
  ELSE "invalid_password"

(* Slip: the variant is drawn first and reported even when a geo rule wins. *)
Destination_DrawFirst(link, country, pick) ==
  LET rules == MatchingRules(link.geo, country)
      variant == SelectABVariant(link.ab, pick)
      id == IF link.ab # <<>> THEN variant.id ELSE NoVariant
  IN  IF rules # {} THEN Sends(Found, link.geo[Min(rules)].dest, id)
      ELSE IF link.ab # <<>> THEN Sends(Found, variant.dest, id)
      ELSE Sends(Permanent, link.dest, NoVariant)

(* Steps 6 to 8: a matching geo rule, else an A/B variant, else the link itself. *)
Destination(link, country, pick) ==
  LET rules == MatchingRules(link.geo, country)
      variant == SelectABVariant(link.ab, pick)
  IN  IF rules # {} THEN Sends(Found, link.geo[Min(rules)].dest, NoVariant)
      ELSE IF link.ab # <<>> THEN Sends(Found, variant.dest, variant.id)
      ELSE Sends(Permanent, link.dest, NoVariant)

Redirect(link, visit, pick) ==
  IF Refusal(link, visit) # "none" THEN Fails(Refusal(link, visit))
  ELSE Destination(link, visit.country, pick)

(* UnlockWithPassword: Redirect with the password and without an address, *)
(* so that no country is ever known.                                      *)
UnlockWithPassword(link, password, pick) ==
  Redirect(link, [password |-> password, country |-> NoCountry], pick)
=============================================================================

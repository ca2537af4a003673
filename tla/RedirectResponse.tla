-------------------------- MODULE RedirectResponse --------------------------
(***************************************************************************)
(* What a request to GET /:slug or POST /:slug/unlock is answered and what *)
(* the observers record of it: router.go's chain of middlewares, from the  *)
(* outermost                                                               *)
(*                                                                         *)
(*   PrometheusMiddleware  HTTPSRedirect  RedirectRateLimiter              *)
(*   RedirectMetricsMiddleware  the handler                                *)
(*                                                                         *)
(* and customErrorHandler, which turns the error the chain returns into a  *)
(* response after all of them have returned.                               *)
(*                                                                         *)
(* A request is [route, proto, limit, slug, body, visit]: proto is the     *)
(* value of X-Forwarded-Proto, limit what the limiter's counter says       *)
(* ("over", "within", or "down" when Redis does not answer), slug whether  *)
(* the path has one, body whether the body binds. A middleware hands       *)
(* outwards                                                                *)
(*   err        the error it returns, "none" without one                   *)
(*   status     the status of the response so far                          *)
(*   dest       where the response points, or NoDest                       *)
(*   clicks     click events handed to PublishClickEvent                   *)
(*   redirects  results counted in redirects_total                         *)
(***************************************************************************)
EXTENDS RedirectDecision

CONSTANT NoDest  \* a response without a destination

OK == 200

(* The echo.HTTPErrors of these routes with their codes; other errors have no code. *)
HTTPError == [bad_body |-> 400, no_slug |-> 404, over_limit |-> 429]

(* customErrorHandler; what is no domain error of these routes is a failure *)
(* of PostgreSQL and becomes 500.                                           *)
StatusOf(err) ==
  CASE err \in DOMAIN HTTPError   -> HTTPError[err]
    [] err = "link_not_found"     -> 404
    [] err = "password_required"  -> 401
    [] err = "invalid_password"   -> 401
    [] OTHER                      -> 500

Returns(err) ==
  [err |-> err, status |-> OK, dest |-> NoDest, clicks |-> 0, redirects |-> <<>>]

Writes(status, dest) ==
  [err |-> "none", status |-> status, dest |-> dest, clicks |-> 0, redirects |-> <<>>]

-----------------------------------------------------------------------------
(* found is what resolveLink returned: a link, or the error's name. *)
Decide(found, visit, pick) ==
  IF found.error # "none" THEN Fails(found.error) ELSE Redirect(found.link, visit, pick)

(* GET never carries a password. *)
GetSlug(found, visit, pick) ==
  LET answer == Decide(found, [visit EXCEPT !.password = NoPassword], pick)
  IN  IF answer.error # "none" THEN Returns(answer.error)
      ELSE [Writes(answer.status, answer.dest) EXCEPT !.clicks = 1]

(* UnlockWithPassword gives the destination to the client and redirects     *)
(* nobody. No type implements Validate, so an empty password goes on to the *)
(* usecase.                                                                 *)
PostUnlock(found, request, pick) ==
  LET answer == Decide(found, [request.visit EXCEPT !.country = NoCountry], pick)
  IN  IF request.body = "malformed" THEN Returns("bad_body")
      ELSE IF answer.error # "none" THEN Returns(answer.error)
      ELSE Writes(OK, answer.dest)

Route(found, request, pick) ==
  IF request.slug = "empty" THEN Returns("no_slug")
  ELSE IF request.route = "unlock" THEN PostUnlock(found, request, pick)
  ELSE GetSlug(found, request.visit, pick)

(* classifyRedirectResult: only an echo.HTTPError is told from other errors. *)
Classify(reply) ==
  CASE reply.err = "no_slug"                                -> "not_found"
    [] reply.err = "over_limit"                             -> "rate_limited"
    [] reply.err \notin {"none", "no_slug", "over_limit"}   -> "error"
    [] reply.err = "none" /\ reply.status = Permanent       -> "redirect_301"
    [] reply.err = "none" /\ reply.status = Found           -> "redirect_302"
    [] OTHER                                                -> "other"

RedirectMetrics(reply) == [reply EXCEPT !.redirects = Append(@, Classify(reply))]

(* A limiter that cannot count lets the request through. *)
RateLimiter(request, reply) == IF request.limit = "over" THEN Returns("over_limit") ELSE reply

(* Registered in production only; elsewhere every request is served as an   *)
(* https one is here.                                                       *)
HTTPSRedirect(request, reply) ==
  IF request.proto = "http" THEN Writes(Permanent, "https") ELSE reply

(* Slip: the redirect metrics are registered for every route and first. *)
Chain_MetricsOutside(found, request, pick) ==
  RedirectMetrics(HTTPSRedirect(request, RateLimiter(request, Route(found, request, pick))))

Chain(found, request, pick) ==
  HTTPSRedirect(request, RateLimiter(request, RedirectMetrics(Route(found, request, pick))))

(* PrometheusMiddleware and the request log read the status of the response *)
(* when the chain inside has returned.                                      *)
Counted(reply) == reply.status

(* The client's response, and what was recorded of it. *)
Exchange(found, request, pick) ==
  LET reply == Chain(found, request, pick)
  IN  [sent      |-> IF reply.err = "none" THEN reply.status ELSE StatusOf(reply.err),
       counted   |-> Counted(reply),
       dest      |-> reply.dest,
       clicks    |-> reply.clicks,
       redirects |-> reply.redirects]
=============================================================================

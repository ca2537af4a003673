# TLA+ models of the URL shortener

A verification project for the Go service under `src/`: modules that model its
concurrent and failure-prone parts, TLC configurations that check them on small
instances, and proofs, for every instance, of all the safety properties that those runs check.

Paths below are relative to `src/`.

## 1. The system

One Go process (several when scaled out on Fly) serves redirects and a
management API. PostgreSQL holds users, links, A/B variants, geo rules and click
events; Redis holds cached links and rate-limit counters; Upstash QStash is asked
to deliver click events back to the service; an external service maps addresses
to countries.

| Component | State it keeps | Operations | Interacts with | Hard behaviour |
|---|---|---|---|---|
| Redirect decision (`internal/usecase/redirect_usecase.go`, `internal/domain/link.go`) | none | `Redirect`, `UnlockWithPassword`, `matchGeoRule`, `selectABVariant` | link cache (input), geoip | order of the checks, cumulative weights, what a browser may keep |
| Link cache (`redirect_usecase.go` `resolveLink`, `internal/repository/redis/cache_repo.go`, `internal/repository/postgres/link_repo.go`) | Redis keys `link:{slug}` with a TTL; the goroutines that fill them | `GetLink`, `FindBySlug`, `SetLink`, `DeleteLink` | PostgreSQL, Redis, link management | fills racing writes, three queries without a transaction, lost deletions, crashes |
| Link management (`internal/usecase/link_usecase.go`, `ab_geo_repo.go`) | tables `links`, `ab_tests`, `geo_rules` | create, update, soft delete, variants, rules, QR code | link cache | check-then-act on slugs and on the sum of weights, invalidation after commit |
| Rate limiter (`internal/delivery/http/middleware/ratelimit.go`, `cache_repo.go` `IncrRateLimit`) | Redis keys `rl:...`: a count and a TTL | one pipeline of INCR and EXPIRE per request | Redis | the pipeline is not a transaction; broken connections; resends |
| Analytics worker (`internal/worker/analytics_worker.go`) | a bounded channel, N consumers | `Enqueue`, `Start`, `consume` | analytics usecase | full queue, cancellation, bounded drain |
| Click pipeline (`redirect_handler.go`, `PublishClickEvent`, `worker_handler.go`, `ProcessClickEvent`) | table `click_events`, column `click_count` | publish, deliver, ingest | QStash, echo's context pool | at-least-once delivery, a goroutine that outlives its request |
| HTTP pipeline (`router.go`, `middleware/metrics.go`, `middleware/security.go`, `domain/errors.go`) | metrics | middleware chain, error mapping | everything | who sees which status, in which order |
| Process lifecycle (`cmd/api/main.go`) | contexts, pools | start, shutdown | everything | shutdown order |
| Authentication (`auth_usecase.go`, `user_repo.go`, `auth_handler.go`, `middleware/auth.go`) | table `users`, signed tokens | register, login, token and key checks | PostgreSQL | racing registrations, lost answers, one credential in place of another, store errors taken for wrong credentials |
| Handlers of the management API (`handler/link_handler.go`, `router.go`) | none | one usecase call each, statuses of its errors | authentication, link management | owner compared, then a statement by id: overlapping removals |
| base62 (`pkg/base62`) | none | `Encode`, `Decode` | link management | overflow |
| geoip (`pkg/geoip`) | Redis keys `geo:{ip}` with a TTL; the goroutines that fill them | `Lookup`, `MaskIP` | external service, Redis | late fills over newer entries, failures |
| Analytics queries (`analytics_usecase.go`, `analytics_repo.go`, `analytics_handler.go`) | none | summary, time series, breakdown, recent clicks | PostgreSQL, click pipeline | five queries without a transaction while clicks come in |
| the rest: health probes, user agents, QR codes, configuration, logging, schema | | | | pure I/O, conversions, or read-only |

What makes each part correct:

* *Redirect decision*: every variant gets its share of the picks; dead links look
  like missing ones; a click is attributed to the variant that was served.
* *Link cache*: a stale entry has one of a few named causes, and goes away by
  itself; a redirect after an acknowledged write sees the write.
* *Link management*: slugs stay unique and no half-created link stays behind;
  weights of a link stay within 100; a slug names one link for good.
* *Authentication*: an account has the password and key its creator was answered with;
  nobody is told of wrong credentials for another reason; a call acts for whoever
  holds the credential that came with it.
* *Management API*: what was created stays until it is removed, and is removed once.
* *geoip*: a country is never older than an entry's life and a fill's delay; a failed
  lookup is not remembered.
* *Analytics queries*: the five dimensions of a breakdown are about the same days.
* *Rate limiter*: no more than the limit in any window; a silent client is
  forgotten and forgiven.
* *Analytics worker*: an event is dropped only when the queue is full, taken in order
  and worked on once; those that wait are taken; shutting down ends.
* *Click pipeline*: an acknowledged delivery is in the table; the counter never
  runs ahead; duplicates come from the transport, never from the handler; a click that
  was accepted is lost only when every delivery of it failed for a reason.
* *HTTP pipeline*: clicks are published for exactly the redirects that are counted; the
  order of the checks gives nothing away.
* *Process lifecycle*: nobody who was accepted is dropped without a cause; the worker is
  stopped after whoever may use it; stopping comes to an end.

`PROJECT.json` lists under `hazards` what is hard to test in this code, each at
its line, with the property that would catch it.

## 2. The modules

    RedirectDecision                             pure decision
      |- RedirectResponse                        the responses and what is recorded of them
      |    `- RedirectDecisionMC                 every small link, request and pick
      `- LinkCache                               cache-aside protocol
           `- RedirectProofs                     proofs of both; EXTENDS RedirectDecisionMC as well
    Base62                                       slugs as digits of ids
      `- LinkManagement  ==> SlugTable           slugs and weights: check, then write
           |- LinkManagementMC                   its symmetry
           `- LinkManagementProofs               its proofs, and those of Base62
    Accounts                                     registration, login, credentials
      `- ManagementAPI                           calls of the management API
           |- ManagementAPIMC                    its symmetry
           `- ManagementAPIProofs                its proofs, and those of Accounts
    RateLimit                                    limiter over Redis
      `- RateLimitProofs                         its proofs
    AnalyticsWorker  ==> EventHandoff            channel, consumers, shutdown
      `- AnalyticsWorkerProofs                   its proofs
    ClickPipeline                                publisher, QStash, ingest
      `- ClickPipelineProofs                     its proofs
    GeoLookup                                    countries of addresses and their cache
      `- ClickAnalytics                          clicks stored and broken down
           |- ClickAnalyticsMC                   its symmetry
           `- ClickAnalyticsProofs               its proofs, and those of GeoLookup
    ProcessLifecycle                             main: start, serve, shut down
      `- ProcessLifecycleProofs                  its proofs

Lines are EXTENDS, `==>` is "implements" (`INSTANCE ... WITH`). `LinkManagement` and `LinkCache` look at the same operations: the one
at their tables, the other at what readers see through the cache. `AnalyticsWorker`
is the inside of the goroutine `ProcessLifecycle` starts and cancels, and `RateLimit` is
where the `limit` of a request in `RedirectResponse` and `TooMany` of `ManagementAPI` come from.
`ManagementAPI` is the way by which callers reach the operations of the two link modules, and
`ClickAnalytics` looks at the rows that `ClickPipeline` delivers from their owner's side.

A definition named `Op_Something` is a *slip*: a mistake that could be made at the
same place in the code. No module uses one; each shows that a property notices
the mistake when it replaces `Op`.

### RedirectDecision, RedirectDecisionMC

`Redirect(link, visit, pick)` is `redirectUsecase.Redirect` from step 3 on.
Expiry is `left`, the ticks until `ExpiredAt` (negative once it has passed),
because the code only compares it with now. A password stands for every password
with the same bcrypt hash. `pick` is the number `rand.Intn(total)` returns. In the
`MC` module the state is one link, which actions grow rule by rule and variant by
variant; the invariants judge what it answers to every request and every pick.

### RedirectResponse

One operator per middleware, applied in the order of `router.go:44-120`: a
middleware takes the reply of what is inside of it. `Chain` is the whole chain;
`Exchange` adds `customErrorHandler`, which echo calls when the chain has returned. That
order is the point: the observers (`Counted` for `PrometheusMiddleware` and for the
request log, `Classify` for `redirects_total`) run before the error has a status.
Left out because no property tells them apart: request ids, CORS, the security
headers, and panics, which `Recover` turns into a response of its own.

`pkg/metrics/metrics.go:64` lists the labels of `redirects_total` as `hit_cache`, `hit_db`,
`not_found`, `expired` and `password_required`. In the model, as in the code, a missing,
dead or protected link is an error of the domain and no `echo.HTTPError`, so it is
counted as `error`; `not_found` is left for an empty slug. `rate_limited` is never
counted, because the limiter is outside of the redirect metrics.

### LinkCache

| Variable | Code |
|---|---|
| `db` | the rows of a link in `links`, `ab_tests`, `geo_rules`: who wrote each part last (`ver`), `is_active`, `expired_at` |
| `cache` | the value and TTL of `link:{slug}`; `cause` is history |
| `req[r]` | a redirect handler: before, between and after the three queries of `FindBySlug` |
| `fill[r]` | the goroutine `resolveLink` leaves behind (redirect_usecase.go:204) |
| `admin[a]` | a management operation between its committed write and `DeleteLink` |
| `acked`, `stamp`, `crashes` | history and bounds |

Actions are the handlers' database queries and Redis commands: `Hit`, `Miss`,
`CacheError`; `FindRow`, `FindVariants`, `FindRules`, `QueryFails`; `AnswerRedirect`,
`AnswerNotFound`; `StoreFill`, `LoseFill`; `UpdateLink`, `SoftDelete`, `CreateABTest`,
`CreateGeoRule`, `DeleteABTest`, `DeleteGeoRule`; `Invalidate`, `LoseInvalidation`;
`Tick` (time for every `ExpiredAt` and TTL) and `Crash`.

Abstractions, and why they are sound for the properties:

* The content of a part of a link is the number of the write that set it. The
  properties compare contents only for equality and age. `click_count` and the
  title are not versioned: they are cached but no answer depends on them.
* `FindByID` and the write of a management operation are one step. `FindByID` is
  used for the owner and the slug, neither of which an operation changes.
* A slot is a handler together with its fill; a new request takes a slot whose fill
  is over. Overlap of a fill with later requests comes from the other slots.
* An operation whose commit was not confirmed returns before `DeleteLink`; for the
  cache that is a write followed by `LoseInvalidation`.
* A variant or a rule is deleted by its own id while the key deleted is that of
  the link in the request's path (link_usecase.go:294-298): `DeleteABTest(a, l, key)`.
* One crash takes every handler, fill and operation with it. Several processes are
  several slots: processes share no state but the two stores.

### Base62, LinkManagement

`Digits`, `Encode`, `Decode` are `pkg/base62` with a base that is a constant: a slug is the
sequence of its digits. Ids are positive and below 2^63, so neither direction overflows.
`Value(slug)` is what `Decode`'s loop has made of each prefix of a slug; both directions are
recursive functions, so that proofs can speak of them.

`LinkManagement` has the tables (`links`, `variants`, and the sequence `nextId`, whose numbers
are used up by refused inserts as well) and one record per operation. The actions are
the statements, since the code uses no transactions: `CheckSlug`, `Insert`,
`InsertRefused`, `UpdateSlug`, `UpdateTaken` for `Create`; `Sum`, `Add` for `CreateABTest`;
`RemoveVariant` for `DeleteABTest`; `QueryFails` and `Unconfirmed` for a statement that fails
before or after its effect; `Crash`. `seen` and `failed` are history.

A custom slug is either a word no id encodes to or the base62 form of an id; all the
rest of `slugPattern` does not matter to uniqueness. A temporary slug is the clock's
reading; two creations may read the same one. Validation that returns before the first
statement is left out, and so is the ownership check, which reads what never changes and is
in `ManagementAPI`.

`SlugTable` is what the table promises to the outside: pairs of a slug and a link that are
published once and never withdrawn or contradicted, and creators who are answered only with
such a pair. `LinkManagement` implements it (`ImplementsSlugTable`) by the mapping in which a
row is published when its slug is not a temporary one: an insert with a custom slug
publishes, and so does `UpdateSlug`; everything else, a refused `UpdateSlug` and a crash
between the statements included, is a stutter.

`SlugWidth` is the width of the column. `migrations/000002` makes it 20 while a temporary slug
is 23 characters, so in the program as it is, no creation without a custom slug gets past
the insert; the run `slug_width` shows it. `link_management` uses 23, the least width
with which the code works, so that the rest of the protocol is checked as well; custom
slugs, whose longest form fits either, behave the same under both. The leftovers that `LeftoverHasCause`
is about can only arise in a column that is wide enough.

### RateLimit

A client is a limiter key. `Incr` is INCR arriving at Redis; `Decide` is EXPIRE and
both replies; `Break` a connection lost after or between the commands (the limiter
then lets the request through); `Resend` go-redis's retry of the whole pipeline;
`FailOpen` Redis out of reach; `Tick` time. Time may pass inside a pipeline up to
`Patience`, which stands for go-redis's default timeouts (`redis/client.go` sets none) and is below
the window (3 s against 60 s). `MaxSends` is the number of times a pipeline is
sent, at most `Limit`. `calls` is the history the properties talk about.

### AnalyticsWorker

The Go channel is `queue` and `closed`. `Enqueue` is the `select` with a default
(analytics_worker.go:57-64), including the panic of a send on a closed channel.
`CloseQueue`, `DrainDone`, `DrainTimeout` are `Start`; `Receive`, `Process`, `Check`,
`RangeEnds` one consumer. The two enabled cases of `Start`'s final `select` are two
actions, so the choice between them is open as in Go. `Enqueue` has no caller in
`src/`: clicks go through QStash. The module models the worker as its interface
lets it be used; the comment at analytics_worker.go:20 describes the missing wiring.

`EventHandoff` has neither goroutines nor a channel: events wait in order, are worked on,
are past. `ImplementsHandoff` maps the queue to `waiting`, the events that consumers hold to
`working`, and the closing of the channel to the end.

### ClickPipeline

`Begin`, `StartPublisher`, `Return` are the server and the redirect handler; `holds` and
`request` are echo's pool of contexts, from which a finished request's `echo.Context` goes to
the next. net/http cancels a request's `context` when its handler has returned (`CancelContext`) or
its client has gone away (`ClientLeaves`). `FetchContext` is `c.Request().Context()`
inside the goroutine (redirect_handler.go:63), so the call to QStash (`Publish`, `PublishFails`)
runs under the context of whatever request the `echo.Context` was reset to last, and QStash
gets the click only if that context is still open.

`Deliver`, `Unreached`, `GiveUp` are QStash: a delivery reaches the process or nobody
(the process is down, the network fails), and QStash stops waiting for an answer without knowing whether
the attempt is carried out. `AfterTry` says what becomes of a delivery that was not acknowledged: it is
repeated as often as `Upstash-Retries` asks (redirect_usecase.go:165).

`Ingest` first turns away what it cannot take (`Refuse`): 401 for a signature whose key the
process does not have or that has expired, 400 for a body that breaks off or cannot be bound
(worker_handler.go:52-66). What it lets in (`Admit`) goes to `ProcessClickEvent`: `Save`, `SaveFails`,
`SaveUnconfirmed`, `Count`, `CountFails`, where the insert is fatal and the counter is not. `Reply` carries
the answer: 200 acknowledges, 401, 400 and 500 are the same to QStash. A payload may name a variant;
`DeleteVariant` removes its row at any moment, after which the foreign key of `migrations/000005:9` refuses
the insert (`SaveRefused`) at every delivery. `Crash` ends every goroutine and handler.

`cause` and `foiled` are history: what may have made QStash deliver a stored click again, and the
deliveries that were lost on their way, refused, or met a failing insert or a crash before it.
The echo pool and QStash are external and modelled from how the code uses them.

### ProcessLifecycle

`main` is where `main()` is; `config` the two settings that change what it starts. `Exit`
takes every goroutine and request with it, and runs no deferred call after `log.Fatal`.
Before `Notify` a signal kills the process, after it a signal waits in `quit`. `task` are the
background goroutines; with QStash only the remote write is started, with a context that
is already canceled. `Accept`, `Query`, `QueryRefused`, `QueryEnds`, `Answer` are a handler as far as
the shutdown can tell: whether it runs and whether it holds a connection of the pool,
whose `Close` waits for connections to come back. `forced` is history: `Shutdown` gave up.

### Accounts, ManagementAPI

`Accounts` has the table `users`, what each access token has left of its life, and one record
per request. `Register` is one insert after bcrypt (`BeginRegister`, `InsertUser`, `InsertRefused`,
`InsertUnconfirmed`): there is no look at the e-mail beforehand, the unique index decides.
`Login` reads the row and compares (`LogIn`, `LoginRefused`). `BeginCall` is `AnyAuthMiddleware`
up to its only query, `CheckKey` that query. `AuthQueryFails` is a failing statement, which Login
and Register return and the middleware takes for a wrong key.

Tokens are pairs of a kind and the request they were issued to; a refresh token is signed with
another secret, so it is never `Valid`. No code ever accepts one: there is no endpoint that
refreshes. A call may carry a token, expired ones and refresh tokens included, and an API key of
somebody else. What a request was about is forgotten once it has failed.

`ManagementAPI` continues an authenticated call: `TooMany` (the limiter comes after the
authentication), `CreateLink`, or `Find` and then `UpdateLink`, `AddPart`, `AddRefused`,
`RemovePart`, `RemoveMissing`. Variants and rules are parts of a link; a rule has a country, and
`migrations/000004:15` allows one rule per country. `Find` stands for the ownership check of every
operation. The owner of a link never changes and no link is ever removed, so what `Find` read
is still true when the statement runs; a part is not read at all, only its id is used. Sums of
weights are left to `LinkManagement`, the cache to `LinkCache`. Every removal of a part that is gone
ends in 500, since `customErrorHandler` knows neither `ErrABTestNotFound` nor
`ErrGeoRuleNotFound`; `RemovedOnce` does not look at that status.

Two idealisations: a password is its identity, although bcrypt compares no more than 72 bytes (longer
ones are refused at registration, so only a login with a longer one could tell); and access and refresh
tokens are signed with different secrets, which `config.validate` does not insist on. With equal secrets a
refresh token would pass for an access token and `ActsForHolder` would have to name it.

### GeoLookup, ClickAnalytics

`GeoLookup` is `Lookup` of one public address: `Hit`, `Miss`, `Fetch`, `FetchFails`, the goroutine that
stores what was fetched (`StoreFill`, `LoseFill`), time and the address moving to another country.
`since` is history: how long ago the address was in each country. Addresses share nothing, so
one shows what can happen to each; a private address is a lookup that ends at once.
The goroutine's context ends after a second; `Delay` is that second in ticks.

`ClickAnalytics` adds the table `click_events`, what `ProcessClickEvent` stores (the agent and the time
of the click are chosen then, since nothing in between depends on them), and one request for
a breakdown: `GetBreakdown` sets the filter, `ReadDimension` is the query of the next dimension,
`QueryFails` ends the request. `Labels`, `CountBy` and `Largest` are that query's `GROUP BY`,
`COUNT(*)` and `ORDER BY ... LIMIT`: the most rows that so many labels have. Of each list the model keeps the sum of its counts and
whether the limit cut it: the sum is what the percentages of the answer refer to. Of the
dimensions other than the country, all of which come from the User-Agent and the Referer, one
value `agent` stands for all.

## 3. What the runs check

| Run | Shows | Bounds |
|---|---|---|
| `redirect_decision` | `PicksMatchWeights`, `GoneLooksMissing`, `ClickAttribution`, `ClicksMatchRedirects` | every link with up to two rules, three variants, weights up to a sum of 3; expiry before, at and after now; two passwords; every kind of request |
| `link_cache` | `TypeOK`, `StaleIsExplained`, `AnswersSeeAckedWrites`, `ExpiredEntriesGoAway`, `EventuallyFresh` | two links, expiry one tick away or none, one handler with its fill, one write, deletions through the other link's path, one crash |
| `link_cache_refetch` (violation) | `NextRedirectRefetches`: a fill restores what `Update` has just invalidated | one of everything |
| `rate_limit` | `AdmittedWithinLimit`, `SilenceForgives`, `EventuallyForgotten` | limit 2, window 2 ticks, three requests, one resend each |
| `rate_limit_window` (violation) | `RefusedOnlyOverLimit`: a client below the limit in every window is refused | no resends |
| `analytics_worker` | `TypeOK`, `ImplementsHandoff`, `QueuedIsReceived`, `StartReturns` | four events, two consumers, a buffer of two |
| `click_pipeline` | `AckedIsRecorded`, `CountWithinRows`, `DuplicateHasCause`, `LostHasCause` | one click, one other request, one echo.Context, three deliveries, one variant that may be deleted, one crash |
| `link_management` | `CreatedIsStored`, `LeftoverHasCause`, `ErrorsAreHonest`, `OverweightHasOverlap`, `ImplementsSlugTable` | four operations, base 2, one word and one lookalike as custom slugs, two clock readings, weights up to 2, one crash |
| `slug_width` (violation) | `TemporaryIsReplaced`: a generated slug is never reached | one creation, base 62, the real widths |
| `process_lifecycle` | `TypeOK`, `AcceptedIsAnswered`, `WorkerOutlivesHandlers`, `PushLostOnlyToQStash`, `StopEnds` | three requests, every configuration |
| `management_api` | `RegisteredIsStored`, `LoginIsHonest`, `ActsForHolder`, `RemovedOnce` | three requests beside an account with a link and a variant, two e-mails, three passwords (one overlong), one country for rules, tokens that live a tick, one crash |
| `click_analytics` | `CountryIsRecent`, `DimensionsOnlyGrow` | two countries and one move, three calls (lookups, or two and a breakdown), entries that live two ticks, fills a tick late, clicks up to two ticks late, limits 0 and 1, three ticks |

Why the bounds are enough for these questions:

* A stale entry needs one reader, one writer and one fill, and two links are what it takes to
  delete the wrong key: `link_cache` has just that, so that liveness stays within reach. More
  handlers, whose fills overwrite each other, and more writes are what `RedirectProofs` is for.
* A limit of 2 with three requests is the smallest instance in which a request is
  over the limit, and a window of two ticks the smallest in which a request falls
  into the middle of another's window.
* Four events against two consumers and a buffer of two fill the queue and drop.
* With weights up to a sum of 3 there are variants of equal and of different weight, up
  to three of them, and every boundary between two.
* A custom slug that looks like a generated one needs one creation to take it and one to
  run into it; two more operations race either of them, or add two variants to the same
  link. Base 2 makes the second id two digits long, so that the order of digits matters.
  Operations and clock readings are interchangeable and the run checks safety only, so
  `Symmetry` is sound.
* Three requests let one be answered, one hang and one hold a connection while `main`
  closes the stores.
* Three requests make a race of two registrations or two removals and leave one to log in or
  to create what they race for; with the account, link and part that are there, a call can present
  one account's token with another's key. Requests are interchangeable and the run
  checks safety only.
* A country older than an entry's life takes a lookup that fetches before the address
  moves, a fill that is late, and a hit on the entry, with time between each. A breakdown
  whose dates moved between its queries takes a click that is inside of the range at one
  query and outside at the next; a second row tells sums from counts.
* Overlapping attempts of one click need two deliveries; the third lets the last
  one meet the limit of retries, after one that was refused or reached nobody. Clicks share nothing but the counter of
  their link, which each increments for itself, so one click shows it.

The mutants in `PROJECT.json` put a slip in the place of the modelled definition;
TLC finds the property violated within the same bounds, so the case a property is
about does occur there.

Deadlock is checked in every run except where the modelled part may come to an end:
the analytics worker, a pipeline whose clicks are all settled, operations, requests and lookups
that have all ended, a process that has exited, and a link with nothing left to add.

### Fairness

Only where a liveness property is checked, and only for what the code drives:

* `LinkCache`: a started handler, fill or operation takes its next step, with success
  or failure (each runs in a goroutine and every call has a timeout or a
  request context); time passes, so Redis expires keys. Nobody has to start a
  request, and neither success nor failure is promised.
* `RateLimit`: a pipeline ends (client timeouts); time passes.
* `AnalyticsWorker`: runnable goroutines run; the five-second timer fires; processing
  one event is limited to ten seconds. Nobody has to cancel or enqueue. This is what
  `QueuedIsReceived` and `StartReturns` rest on.
* `ProcessLifecycle`: `main` goes on (every call it makes has a timeout or waits for
  something that ends), and a query comes to an end. A handler may hang, and nobody has
  to send a signal.

### What the violations say

* `link_cache_refetch`: "next redirect will re-fetch from DB"
  (`link_usecase.go:179`) fails when a fill that read before the update stores after
  the deletion. `StaleIsExplained` bounds the damage: it takes a fill that raced, a
  lost deletion or a deletion of another link's key, and `EventuallyFresh` its
  duration.
* `rate_limit_window`: EXPIRE with every request restarts the window, refused requests
  included, so the count is neither of a fixed nor of a sliding window.
* `slug_width`: `tmp-` and nineteen digits do not fit `VARCHAR(20)`; the comment at
  `link_usecase.go:88` says the temporary slug "will be replaced with base62(id)".

More places where comments and documents say something else than the code does, without a
violation of their own:

* Every request that is refused or fails is counted and logged as 200: the metrics and the request log
  read the response's status when the chain has returned (`middleware/metrics.go:28`, `logger/middleware.go:40`), and
  `customErrorHandler` sets it afterwards (`Exchange`: `counted` is not `sent`). `pkg/metrics/metrics.go:16` has
  the metric count "all HTTP requests by method, path, and status", and the log's branches for 4xx and
  5xx ("after response is written") are never taken. One request shows it; no property that holds relates
  the two, so none is stated. `GoneLooksMissing` includes what is recorded, since it must not differ either.
* The goroutine of redirect_handler.go:63 publishes under a context that is canceled when the handler returns,
  and nobody waits for it: the comment at redirect_usecase.go:140 has the call made "AFTER the redirect
  response is sent", and a click is lost unless the call is over before. With a pooled `echo.Context` it may
  even be another request's context. The model has both; nothing is claimed of a click before QStash has it.
* `analytics_worker.go:69` has `Start` drain the remaining events and `main.go:254` "drain remaining events", but
  a consumer that looks at its canceled context between two events leaves (analytics_worker.go:131), `Start` then
  logs that the worker "drained cleanly" with events in the queue, and `main` returns without waiting for any
  of it. A property that held would only describe the loss; what is checked is that no event is worked on
  twice or out of order (`ImplementsHandoff`) and that stopping ends (`StartReturns`).
* `link_handler.go:310` and `:411` document 404 for a variant or rule that is not there; it is 500
  (`RemoveMissing`).
* With QStash, `main.go:209` cancels the context that `main.go:213` hands to the push of metrics, which
  "Runs every 15 seconds" (`pkg/metrics/remote_write.go:15`): it ends at once.
  `PushLostOnlyToQStash` shows that nothing else ends it while the process serves.
* `internal/domain/redirect.go:9` reserves 302 for expiring, geo and A/B links, but an expiring
  link, or a geo link for a visitor from elsewhere, gets 301 (redirect_usecase.go:114).
* `README.md:539`, `README.md:548` and `auth_usecase.go:69` speak of refreshing tokens and regenerating keys; there
  is no endpoint for either. Who loses the answer to a registration (`InsertUnconfirmed`,
  `Crash`) has an account without a key, and can only log in.
* The analytics handlers document "max: 50" and "max: 100"; a limit above falls back to 10 or 20
  (`Items`).
* The request types carry `validate:"required,..."` tags but have no `Validate` method, so
  registration takes any e-mail and any password, and one of more than 72 bytes ends in 500
  (`BeginRegister`).
* `geoip.go:135` has `MaskIP` keep the first four groups of an IPv6 address; of a short form such
  as `2001:db8::1` the groups that are left include the host's.
* `migrations/000005:39-41` makes a partial index whose predicate calls `NOW()`, which PostgreSQL
  refuses in an index. The models assume that the table is there.

## 4. What is proved

Every invariant and action property that a passing run checks, and both refinements, are
theorems for every value of the constants. TLC checks the liveness properties only.

| Module | Theorems | For any |
|---|---|---|
| `RedirectProofs` | `TypeCorrect`, `StaleEntriesExplained`, `AckedWritesSeen`, `ExpiredEntriesLeave` | links, handlers, operations, writes, crashes, expiries, times to live |
| `RedirectProofs` | `Indistinguishable`, `Published`, `Shares`, `Attributed` | link with any rules, variants and weights, request, pick |
| `LinkManagementProofs` | `RoundTrip`, `Creations`, `Leftovers`, `Honesty`, `Overlaps`, `Implements` | base, operations, custom slugs, clock readings, widths, weights, crashes |
| `ManagementAPIProofs` | `TypeCorrect`, `Registration`, `Login`, `Authentication`, `Removal` | requests, e-mails, passwords, countries, lifetime of tokens, crashes |
| `RateLimitProofs` | `TypeCorrect`, `Limiting`, `Forgiving` | clients, requests, limit, window, patience, resends |
| `ClickPipelineProofs` | `TypeCorrect`, `Recording`, `Counting`, `Duplication`, `Loss` | clicks, requests, pooled contexts, deliveries, crashes |
| `ClickAnalyticsProofs` | `CountriesRecent`, `DimensionsGrow` | lookups, countries, moves, clicks, dates, limits |
| `AnalyticsWorkerProofs` | `TypeCorrect`, `Implements` | events, consumers, buffer |
| `ProcessLifecycleProofs` | `TypeCorrect`, `AcceptedAnswered`, `WorkerOutlives`, `PushLost` | requests |

Few of these properties are inductive. What follows is the invariant behind each proof; a proof
has one lemma per action, or per group of actions that disturb the same part, and `TypeOK`s
that no run checks (`ManagementAPIProofs`, `RateLimitProofs`, `ClickPipelineProofs`) are there for the
proofs' sake.

### RedirectProofs: the cache

Assumptions: `TimesAssumption`, `BoundsAssumption`, `LinksAssumption` of `LinkCache` (times are
natural numbers, `Never` is not a number, there is a link, `Nil` is no operation). TLC
evaluates them in every run of that module. `IInv`:

1. `StampIsNewest`: no part of a link carries a number of a write that has not
   happened, so a new write is newer than everything (`AckedIsCommitted` and
   `UnderWayIsCommitted` would break without it).
2. `AckedIsCommitted`, `UnderWayIsCommitted`: what is acknowledged, and what an operation
   is about to acknowledge, is in the database.
3. `EntrySeesAcked`: an entry without a cause holds every acknowledged write. A fill
   stores without a cause only what equals the database, which by 2 holds them; a
   deletion removes the entry it would have to compare.
4. `EntrySeesMisdirected`: an operation that will delete another link's key
   acknowledges its write without touching its own link's entry; this is 3 for the
   moment before it does.
5. `ReadsSeeFloor`: the three queries of a handler read at or above what was
   acknowledged when it started, by 2 and because numbers only grow.

`AnswersSeeAckedWrites` then follows on a hit from 3 and on a miss from 5.
`StaleIsExplained` needs that a write is followed by an operation that owes the
deletion. `ExpiredEntriesGoAway` is inductive with the types (`Timely`): a fill chooses the time to
live from the expiry of the very copy it stores, and a tick takes one off both, stopping the
copy's clock at its expiry.

### RedirectProofs: the decision and the response

No assumptions: the bounds of `RedirectDecisionMC` are arbitrary. Its specification is
`MCSpec`, so that it can stand beside the one of `LinkCache`.
`Indistinguishable` and `Published` do not depend on how a link came about. The
first: `Decide` is the only place where the handlers look at the link, and it answers alike.
The other follows the reply outwards through the chain: a handler either redirects with
one click or publishes none (`Handled`), `classifyRedirectResult` tells the two apart
(`Classified`), and neither the limiter nor the redirect to https touches both sides differently
(`Chained`).

`Shares` and `Attributed` need what owners can make of a link (`IsLink`): variants have
different ids and positive weights, and a geo rule never has a variant's destination. The sum of
weights is a fold over the positions, which the library defines by a recursion over subsets.
`WeightsAreUnits` shows that it is the number of picks the positions stand for: that number
satisfies the same recursion, and of the subsets on which two solutions differ a
smallest one would have a smaller one. So cumulative weights grow by each variant's weight
(`Cumulation`), the walk stops where the pick lies (`Selection`), and a variant is drawn by the interval
of picks between two cumulative weights (`Share`).

### LinkManagementProofs

Assumptions: `BaseAssumption` (a base of two at least), `WidthAssumption` (widths are natural numbers,
custom slugs fit the column and are shorter than temporary ones), `SlugAssumption` (words, temporary slugs and the empty
slug are apart, the full weight is positive), `EncodingAssumption` (a temporary slug has a hyphen, which no
base62 form has; ids that custom slugs imitate are positive).

`RoundTrip`: `Decode(Encode(n)) = n`. `Digits` and `Value` are recursive functions; that they
satisfy their equations is shown by building solutions on initial segments that agree with each
other, and both this and the round trip by the least counterexample (`LeastNatural`, from the
well-foundedness of the natural numbers), so no induction rule is needed. It makes the slugs of
different ids different (`EncodeDistinct`).

`IInv` has a part for each operation and one for each row. `Looking` and `Holding` say what an
operation at each of its statements knows and which row is its own; `RowInv` that a row has one creator,
that a temporary slug means a creation before its `UpdateSlug`, one that failed, or one whose slug
somebody else asked for, and that every other generated slug is the base62 form of its id. `RowInv`
is about history that must not be lost: that the custom slug which is in the way stays for good.
`Creations`, `Leftovers` and `Honesty` are read off. `Honesty` holds for every width of the column, the
migration's included, since it names a slug that is too wide as a cause.

`Implements`: `InsertRefused`, `UpdateTaken`, `Sum`, `Add` and the like leave the published
pairs alone; an insert of a custom slug and an `UpdateSlug` publish a pair whose slug and link
are both new (`Publishes`), by the unique index and because a row with a temporary slug was not
published before.

`Overlaps`: `WeightInv` says of each variant, and of each addition between its two statements, that
it fits beside the variants its sum had seen, and that these had seen no variant that it has
not (`Fits`). If no two variants overlap, then of any two one has seen the other; among finitely many
variants one has seen all others, and its own check bounds the sum. Deletions only take
away (`TotalSubset`). Sums are counted as in `Shares`.

### ManagementAPIProofs

Assumptions: `AccountsAssumption` (the account that is there has an e-mail and a password of the
instance, and the values that stand for nothing are none of the others) and `PartsAssumption` (its part is
not named like a request). `AccountsInv` has the unique index (`UniqueEmails`), `RowsOfRequests` (a row
belongs to a registration that has ended, which is why the next one's id is new), and for each
request what it was told about the accounts (`Informed`) and for whom it may act (`Authorized`); both
only need accounts that are there, so more accounts take nothing away. `PartsInv` relates the
rows of variants and rules to the answers of those who removed them: a part that has been seen is
there or somebody has tried to remove it, and who is answered 204 is the only one (`RemovedInv`); a
removal that neither failed nor was answered 204 is of a part that was not there (`ErrorsInv`).
`NamedLast` says that a request names a part with its last statement, so nothing that is told
of a part is still under way.

### RateLimitProofs

Assumptions: `LimitAssumption` (positive limit and window, patience below the window, a pipeline is
sent at most `Limit` times, `NoTTL` is no number) and `AbsentAssumption`. The invariant is about one client,
since keys are apart. For `Limiting`: the requests that the key still counts have counts
between 1 and the key's (`Tallied`), and no two the same one (`Apart`), because INCR returns each number
once while the key lives; and the key lives as long as any of them is recent, because each
EXPIRE starts a whole window. So those let through have different counts up to `Limit`.
For `Forgiving`: a key that no pipeline was cut over is there for a request under way or goes away in
time (`Kept`), so whoever was silent finds none; it then is alone (`Alone`), and the
count is of its own making (`Forgiven`), which is where `MaxSends <= Limit` is used.

### ClickPipelineProofs

Assumption: `PipelineAssumption`. `SendingInv` orders the handler, the goroutine and the message: QStash has
nothing before the goroutine ends. `Numbered` numbers the deliveries. `Counts` adds the attempts between
two statements to what they are going to write: `rows + arrived + saving <= tries` and
`counted + counting <= rows`, where `arrived`, `saving` and `counting` are numbers of attempts; neither
inequality is inductive without them. `Records`: an attempt past its insert has a row. `Single`:
without a cause there is one attempt at a time and none after a row. `Accounted`: an attempt
that left no row met the variant's deletion, or is among the foiled ones: lost on its way, refused, or
ended by a failing insert or a crash. With `Numbered`, a click that was given up has used all its deliveries,
which makes `Loss`. `ServedInv` is there for the types: a request that has begun has an `echo.Context`
that was reset to some request.

### ClickAnalyticsProofs

Assumptions: `GeoAssumption` (an entry lives at least a tick, the empty country is no country) and
`AnalyticsAssumption` (dates and limits are integers, lateness is not negative).
`CountriesRecent`, by `GeoInv`: the country the address is in was left no time ago (`HomeIsNow`); what a fill
carries was true at most as long ago as the fill is old (`FillIsFresh`), which is at most
`Delay`; and what an entry holds was true at most `Delay` and the life it has used up ago
(`EntryAges`). A tick ages both sides alike, a hit takes an entry that has a tick left, so its
country is younger than `CacheLife + Delay`.
`DimensionsGrow`, by `AskInv`: no list that was read counts more clicks than match the filter now
(`ListedWasThere`), because the filter's dates are fixed with the request and rows only come in; and a
list that names every label counts all of them (`ListedClicks`).

### AnalyticsWorkerProofs

Assumptions: `WorkerAssumption` (a buffer of at least one, a finite, non-empty set of consumers).
For the types, `CountInv` counts: `done` is the number of consumers that are gone (`DoneCounts`),
and the channel is closed by `Start` alone (`ClosedByStart`). For the
refinement, `HandInv` says where an event can be: in one place of the channel and not taken
yet (`WaitsOnce`), or with one consumer, which has taken it (`HeldOnce`, `HoldsFollows`), and
whatever was seen was offered (`SeenIsOffered`). Then `Enqueue` maps to `Admit`, `Drop` or, where it
panics, to none, `Receive` to `Take`, `Process` to `Finish`, `CloseQueue` to `Close`, and the rest to none.

### ProcessLifecycleProofs

No assumptions. `IInv` says where `main` must be for a store to be open, for the listener to be there, for a
request to exist (`StoresFollowMain`, `ServerFollowsMain`, `RequestsFollowMain`) and for the worker's
context to be canceled (`CanceledLast`): a request is refused only by a store that is no longer
open, that is after `main` has stopped waiting, and then either none is left or `Shutdown`
gave up. `EndedIsOver` keeps the excuse of a killed process from being lost again. `PushFollowsContext` adds that the
push has not ended while its context is alive and `main` serves.

### Model-checked only

The liveness properties: `EventuallyFresh`, `EventuallyForgotten`, `StartReturns`, `QueuedIsReceived`,
`StopEnds`. They need fairness and `ENABLED`, which the prover does not
reason about. The three violations are counterexamples, which only TLC can give.

## 5. Plan

In this order:

1. An abstract cache (`db`, `cache`, a stale set) that `LinkCache` implements, and the proof.
2. Composition: `ClickPipeline`'s publisher fed by `RedirectResponse`, and the analytics worker
   inside of `ProcessLifecycle`.
3. The safety half of the liveness arguments: for each a measure that no step increases.

## 6. Not modelled

* Panics and echo's own routing: a custom slug that equals a static route (`health`,
  `livez`, `readyz`, `metrics`) is never reached.
* `MaskIP`, user agents, QR codes: conversions of text whose result no decision depends on.
* The analytics queries other than the breakdown: one statement each, which sees one state.
* Binding and validation of requests, health probes, configuration and logging: they change no
  state a property here is about.
* `AuthMiddleware`, `APIKeyMiddleware`, `base62.IsValid`: nothing calls them.
* PostgreSQL and Redis themselves: single statements and commands are atomic.

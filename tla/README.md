# ChatRouter: specifications, checks and proofs

ChatRouter is an OpenAI-compatible gateway: it authenticates a tenant, admits the
request against the tenant's limits, routes it to one of several upstream models,
dispatches it with retries and failover, and accounts for the result. Any number
of replicas share one Redis; every counter, session, statistic and the
configuration itself live there. This directory holds TLA+ models of the parts
where replicas, requests and background tasks meet, TLC runs that check them on
small instances, and TLAPS proofs that hold for every instance.

Paths below are relative to `src/src/chatrouter/` unless they start with `src/`.

## 1. The system

| Component | Code | State it keeps | Operations |
|---|---|---|---|
| Tenant rate limiter | `governance/rate_limit.py` | in-flight gauge, RPM and TPM windows, in storage | `check_and_consume`, `reconcile_tokens`, `release` |
| Circuit breaker | `governance/circuit_breaker.py` | one record per model, in the memory of a replica | `allows`, `record_success`, `record_failure` |
| Request life cycle | `service.py` | one context per request, background tasks | `prepare`, `complete`, `stream`, `_finalise_*` |
| Dispatcher | `upstream/dispatcher.py` | attempts of a request | `dispatch`, `dispatch_stream` |
| Model load tracker | `governance/load.py` | per-model gauges and windows, in storage | `snapshot`, `is_saturated`, `reserve`, `release`, `wait_for_capacity` |
| Configuration reload | `app.py`, `service.py`, `config/loader.py`, `storage/redis_store.py` | version, payload, stream and consumer groups in Redis; served document and applied version per replica | start-up, bootstrap, admin write, watcher, reconciler |
| Router | `routing/router.py` | none of its own (session bindings and statistics in storage) | `route`, `_fallback_chain` |
| Feedback | `routing/feedback.py`, `routing/feedback_normalizer.py` | remembered requests and per-model statistics in storage | `remember_request`, `claim_request`, `record_outcome`, `record_feedback` |
| Response cache | `cache/` | cached answers in storage | `get`, `put` |
| Session affinity | `service.py`, `routing/router.py` | a binding per session | read when routing, written when accounting |
| Quota | `governance/quota.py` | spend per tenant and period (hour, day or month), in storage | `check`, `record` |
| Context fitting | `routing/context_fit.py` | none | `fits`, `trim_to_fit` |
| Complexity analyser | `routing/complexity.py` | none | `analyse`: scores a conversation |
| Storage | `storage/` | everything above | windows, gauges, caches, configuration, stream |
| Upstream client | `upstream/client.py` | an HTTP connection | one call, one stream |
| HTTP API | `app.py`, `api/` | none | `chat_completions`, `feedback`, `admin_update_config`, `readyz` |

**How they interact.** `chat_completions` calls `prepare`, which calls the
limiter, the quota, the router and context fitting in this order; then `complete`
(cache, dispatch, release, background accounting) or `stream` (an async generator
that dispatches, releases in its `finally` and starts the accounting). The
dispatcher asks the breaker and the load tracker before each model and tells both
what became of the attempt. The router asks the breaker too,
also in the dry run of `explain`, and so does `readyz`.
Configuration changes reach a replica in three ways: its own admin endpoint, a
notification stream and a periodic poll.

**What is hard.** Everything is `asyncio`: within a replica another task may run
at every `await`; between replicas, between any two Redis commands. Checks and the
updates they guard are separate commands. A request may leave by an exception at
any await and a stream's client may go away at any time. Windows are keyed by the
minute in which a command executes. Breakers receive outcomes of calls that began
in another state. Configuration writes are two commands, and replicas crash,
restart and lose subscriptions in between. `PROJECT.json` lists these hazards at
their lines with the properties that cover them.

**What makes each component correct.** The limiter never lets more requests of a
tenant through than its limits, however checks and rollbacks interleave, and its
counters do not drift. The breaker keeps calls away from a faulty upstream, bounds
its probes and returns to service when the upstream does. A request gives back
whatever it reserved, once; a stream commits to a model with its first byte and is
never silently cut. Replicas come to serve the stored configuration. A rating of a
request counts once and no sample of the statistics is lost to a concurrent one.
No model answers a tenant that may not use it, a session stays where its prefix
cache is, and an answer from the response cache does not outlive the session's
binding. Where the code does not quite do so, section 3 says how, and a passing
property says what it does keep to. A quota and a model's capacity, which are
checked in one command and booked in another, are overshot by no more than the
requests that were in between; the tokens of an answer count alike for the model
and for the tenant. A hard demand in a conversation is not forgotten by its later
turns, and a conversation that is cut loses the fewest of its oldest middle
messages.

## 2. The modules

| Module | What it is |
|---|---|
| `RateLimiter` | the tenant limiter, one action per storage command |
| `CircuitBreaker` | one model's breaker, its callers, time, and an upstream that goes and comes back |
| `CircuitBreakerProofs` | proofs about it |
| `Reservation` | abstract: what a concurrency limit promises |
| `Gateway` | a request from admission to accounting; EXTENDS `RateLimiter` and takes its actions |
| `GatewayProofs` | proofs about it and about the limiter it uses |
| `Traffic` | the requests, estimates and reported usages that budgets are about |
| `Quota` | the tenant's quota: check at admission, booking after the answer |
| `LoadTracker` | one model's windows and gauge, one action per storage command |
| `Accounting` | quota, dispatch to a model and booking composed; EXTENDS `Quota` and `LoadTracker` |
| `AccountingProofs` | proofs about `Quota` and `LoadTracker`, and about their composition |
| `Tokens` | the estimate of a conversation's tokens |
| `Complexity` | the score of a conversation, in thousandths |
| `ContextFit` | trimming to a model's window |
| `Conversation` | a thread that is scored and trimmed request by request; EXTENDS both |
| `ConversationProofs` | proofs about it |
| `Sums` | facts about sums over finite sets, for the proofs |
| `ConfigReload` | the shared configuration, its writers and its readers |
| `ConfigReloadProofs` | proofs about it |
| `Feedback` | the statistics, their optimistic update and the ratings of a request |
| `FeedbackProofs` | proofs about it |
| `Routing` | the turns of a session: decision, response cache, affinity |
| `RoutingProofs` | proofs about it |
| `MC*` | instances for TLC |

### RateLimiter

`check_and_consume` increments a counter, compares, and rolls back in reverse
order when it refuses. `TakeSlot`, `TakeRequest`, `TakeTokens` are the increments
with their comparison (the comparison is local to the caller, so it belongs to the
command that precedes it); `UndoTokens`, `UndoRequest`, `UndoSlot` the rollbacks;
`Release` and `ReconcileTokens` what happens to an admitted request later; `Roll`
the minute boundary, where both window counters start again from zero. `pc[r]` is
the await a request stands before. A limit of 0 stands for "no limit", as in the
code. `rpmTaken`, `rpmUndone`, `tpmTaken` and `tpmForeign` are history: they say
in which minute a request moved a counter and what moved in this minute on behalf
of requests of another one, which is what the exact statements about the counters
need.

### CircuitBreaker

The breaker's record as in the code (`state`, `events`, `consecutive_failures`,
`opened_at` as the age `elapsed`, `half_open_calls`, `half_open_successes`), with
time in ticks (`Tick` ages the events and drops those out of the window). Routed
callers ask twice, as `router.route` and then the dispatcher do; pinned callers
ask once; a routed caller may go no further (the dry run of `explain`), and
`Readyz` only asks. A permitted caller may be skipped for capacity,
call, succeed, fail, vanish without an outcome (a stream whose client left) or,
with model failover off, retry up to `MaxAttempts` times without asking again
(`tries`). `CallFails` is a fault of the upstream; `CallRefused` is a 4xx of one
that works, which the dispatcher records as a failure too. `Outage` and `Recovery`
are the upstream's. `probes`, `proven` and `strays` are history: the probe calls
under way and those that succeeded, and the calls each caller has started since
the breaker opened.

### Gateway and Reservation

`at[r]` is the await a request stands before, from `"limiter"` to `"done"`; one
action per await. `chain[r]` are the models still to be tried, `attempts[r]` the
attempts used, `sent[r]` what the client has received, `modelInflight` the load
tracker's gauges. Breaker verdicts, routing results, cache hits and capacity
refusals for rate are free choices: the properties must hold for all. Each
behaviour runs under circumstances, `setting`: the requests that arrive, the
minutes that pass, whether failover is enabled, and which exceptions may leave an
await: `"read"` and `"write"` (a storage command raises; a write may or may not
have been executed), `"disconnect"` (the task of a stream is cancelled; `prepare`
runs before there is a stream and is not, nor is its release on failure,
`FailedInPrepare`), `"transport"` (the upstream connection breaks in mid-stream)
and `"reload"` (a reload removes the model that answered a stream before it is
accounted, `ModelRemoved`). `Unwind` collects where the handlers and `finally`
blocks of the code lead from each await. `harmed` is history: the requests that an
exception or a reload has cut short.

`Reservation` states a concurrency limit without mechanism: `Safe` is the limit
and that a slot is given back at most once, `Spec` adds that it is given back.
`Gateway` is mapped to it by `HoldOf`: a request holds its slot from the check that
it passes until the gauge is decremented for it. A slot that is lost stays held,
so what the docstring of `service.py` says would be `Slots!Spec`, which the code
does not keep (section 3). `ImplementsReservation` is what it does keep under all
faults: `Slots!Safe`, and every slot is given back but those of requests that were
themselves cut short.

### ConfigReload

Redis: `version`, `payload`, `stream`, `cursor` (the consumer groups). Replica:
`config`, `applied` and four actors: start-up, an admin update, the watcher, the
reconciler, each with a position `at[r][a]`, the last version it was given,
`held[r][a]`, and the document it has in hand, `draft[r][a]`. `set_config` is
`Bump` then set: the code increments first. A document has sections; it is named
by the version its writer got (`by`), and so is each section that this writer gave
(`of`). `Merge` is what `admin_update_config` does with a body: the sections it
has, and the others as the replica serves them. It is made in the step that
increments, which makes a difference only where loads and writes overlap. `given`
is history: the sections of the update that is being stored. `setting` is the
deployment: whether the store was seeded, whether writes and loads keep apart
(`alone`), which bodies updates have and how many writes and mishaps there are.
`Stop`, `ReloadFails`, `UpdateFails` and `SubscriptionDies` are the mishaps. A
stopped replica comes back by `Connect`.

### Feedback

A job is one call that changes statistics: the outcome of a request (`Record`) or
a rating of it (`Claim`, which takes the remembered record of the request first
and decides whether the rating is accepted). `RedisStorage.update_stats` is
`Watch`, `Execute` or `Conflict`, and after the last attempt `Read` and `Write`
without the check. A job folds its sample into its band's record and then into the
aggregate, one update after the other (`KeysOf`, `Proceed`). Averages are
abstracted to the set of samples they contain: a sample that is overwritten is
missing from it. `Remember` and `Expire` are the request's record, `Raise` a
storage command that fails or a process that dies.

### Routing

Turns of one session, each at its await `at[t]`: `ReadBinding` (validation and the
read of the binding), `Choose` (the decision and the write of the binding),
`LookupCache`, `Answer` (the dispatch), `Account`, `ReadTtl` and `StoreAnswer`
(the accounting in the background). `Explicit` is a turn that names or pins its
model. The decision follows `router.route`: `Allowed`, `Capable`, `Candidates`
with its two relaxations, `Target`, `Scored`, `Sticky`, `Fallbacks`. Which
candidate has the best utility, which breakers allow, which model of the chain
answers are free choices. `seen[t]` is what the turn remembers of the binding,
`room[t]` its TTL as read for the cache. `Tick` expires binding and cache, between
any two commands. `calm`, `lastServed`, `booked` and `delay` are history: whether
turns have followed one another, who answered last, which tokens were accounted,
and the seconds since a turn read the TTL, which an entry of the cache keeps as
`late`.

### Quota, LoadTracker and Accounting

`Quota` has the usage of the current period, `spending[r]` (how far a request is)
and the set `downgraded`. `CheckSpend` is `check` with its three verdicts,
`Record` the booking by the background task, `Drop` every way in which it never
comes, `NextPeriod` the new key of a new period. `atFull` and `peak` are history:
the part of the usage booked by requests that were let through in full, and the
most of these that were under way at once. The module lets a request book any
amount up to `MostTokens` and `MostCost`.

`LoadTracker` follows a request through one model: up to three reads (`LookAtRpm`,
`LookAtTpm`, `LookAtGauge` with the verdict), the polls while queueing, up to
three writes (`Reserve*`), the call, up to two writes (`Release*`), and perhaps
another attempt, which reserves without looking. `CorrectGauge` is the second
command of `incr_gauge` in `redis_store.py`: a decrement that leaves the gauge
below zero is followed by `SET 0`. The gauge may be lost (its key expires after an
hour, or the store loses it) and replicas may die. `moved` and `crowd` are
history: what a request added to the token windows in sum, and the most requests
that were between look and gauge at once.

`Accounting` composes them as the service does. `Admit` is the quota check,
`AnswerFromCache` the hit that never asks the dispatcher, `Dispatch` any step of
`LoadTracker`, `Book` the booking of what `_finalise_success` and
`_finalise_stream` compute. The answer's tokens are computed three times in the
code, from the same reported usage: for the model's window (`DispatchedTokens`),
for the ledger (`AccountedTokens`), and for a cached answer (`CachedTokens`). A
price per token stands for the price sheet.

### Complexity, ContextFit and Conversation

`Conversation` is a thread as the gateway sees it: the client sends its whole
history with each request (`Ask`), which is scored and, if the model cannot hold
it, trimmed on its way; the client's own history stays whole and grows by the
answer (`Answer`). A message is a record of what the analyser's regular
expressions find in it, and its tokens; everything after the regular expressions
is in `Complexity` step by step: evidence of a turn, recency weights, memory, the
ten signals, the blend, the trivial-turn shortcut, the inheritance of follow-ups,
the tier. Numbers are thousandths, each division rounded down. `ContextFit` has
`trim_to_fit` and what `_apply_context_overflow` makes of its result.

## 3. The runs

| Run | Instance | Shows |
|---|---|---|
| `limiter` | 3 requests, concurrency 2, RPM 2, TPM 5, two tokens each, two minutes | all three limits with each other's rollbacks; every counter exact |
| `breaker` | 2 routed, 1 pinned caller, `readyz`, retries of two attempts, refused requests, lost outcomes, fairness | probes bounded, closed below threshold, calls that start in an open period bounded; once the upstream stays up the breaker closes for good unless its probes were spent without an outcome or requests are refused again and again |
| `breaker_stuck` (violation) | 1 routed caller | the first of these does happen: it may never close |
| `gateway` | three circumstances: 1 stream and 1 completion over two minutes, 1 stream and 2 completions within one (both with failover, no exceptions), 1 stream and 1 completion without failover and with all faults; concurrency 2, TPM 5, 2 models of concurrency 1, two attempts, fairness | no slot given back early or twice, a slot held throughout the dispatch, model gauges exact, no retry after the first byte, tokens of dispatched requests settled; slots implement `Reservation`, and all are given back but those of requests cut short |
| `gateway_rejected` (violation) | no faults | a request refused after admission keeps its tokens |
| `gateway_silent` (violation) | transport fault | a broken stream ends silently |
| `config` | 2 replicas; once with one write, everything overlapping and one mishap of any kind; once with an empty store that both may seed at the same time and no mishaps; once with an empty store, two writes, reloads that fail and dead subscriptions, where writes and loads do not overlap and updates have any body of two sections | every replica comes to record the stored version; without overlaps every replica comes to serve the stored document, no reload fetches an old one, and an update by a replica that has caught up replaces only the sections it was given |
| `config_diverge` (violation) | 2 replicas, one write, no faults | without that assumption a replica serves the old document for good |
| `feedback` | 4 jobs of one request and others, 3 attempts each, failures, expiry | a request is rated once, no sample is lost, an accepted rating counts in band and aggregate |
| `routing` | 2 turns at a time, 6 kinds of request, 3 models, the default model above the tenant's ceiling, bindings of one second | chains keep to the tenant's policy but for the default model; sessions stay, prefixes add up; a cached answer outlives the binding by no more than the pause between reading its TTL and putting the answer |
| `accounting` | 1 stream, 1 completion, both policies, quota of 1 request, 3 tokens or cost 2; a model of RPM 2, TPM 4, concurrency 1; one poll, two attempts; crashes, a lost gauge, a failing background task; minutes and periods at any time | quota and load overshot by no more than the requests in between, the gauge never claims too much, the two ledgers of tokens agree |
| `conversation` | threads of up to seven messages out of eight questions and two answers, a model of 150 tokens, the last five messages analysed, default weights and thresholds | a hard demand keeps the thread off the economy tier, more evidence never makes it cheaper, trimming takes the fewest of the oldest middle messages |

**Bounds.** Three requests against limits of two are the least at which requests
are refused while others are half-way through a rollback; two minutes are the
least with a stray rollback. Three callers around half-open periods of two probes
are the least at which asking callers starve calling ones and late outcomes meet a
later state. One stream and two completions with two models give contention for a
slot, for a model and failover, all at once; with faults, two requests suffice,
since each meets its faults alone and one more observes the counters they leave,
and minutes are told apart with two requests because the limiter's own run has
three. Two replicas are the least with a writer and a reader; two writes the least
at which one is announced while another is applied. Four jobs with three attempts
(five in the code) are the largest number for which the last, unchecked write
cannot lose a sample: each conflict takes a success of another job, so `MaxTries +
1` concurrent jobs are safe, and one more is not. Two overlapping turns are the
least with a stale binding, and three models the least with a primary, a fallback
and a forbidden default; the session ends when two tokens are booked
(`MaxBooked`). A binding of one second is alive or expired at any step, so a
cached answer may be put in the second after the binding has gone, or has been
renewed. Retries of two attempts are the least that start a call after the one
that opened the breaker. `MaxWindow`, `MaxEvents`, `MaxPolls`, `MaxMessages` and
the fields `minutes`, `maxVersion`, `bodies` and `maxMishaps` of the settings are
bounds of the exploration, not of the code. Two sections are the least with one
that is given and one that is not. Two requests in `accounting` are the least that
overtake each other between a check and its booking and between a decrement and
its correction; with limits of one the second is always the one too many. Seven
messages are the least with a demand up front, two complaints and a follow-up, and
more than the five that are analysed; about half of these threads exceed the
model's window.

**Fairness.** `Gateway`: weak fairness of each request's steps, since the event
loop runs every ready task and the client's timeout ends each call; faults and the
minute boundary have none. `CircuitBreaker`: weak fairness of time, of callers
that arrive and of calls that end. `ConfigReload`: weak fairness of start-up (the
deployment restarts a replica), of an update under way and of the two background
loops; none of admins, mishaps or crashes. Where a passing run needs an assumption
on the environment that the code does not enforce it is a constant or a field of
the setting (`alone`, `faults`, `Losses`, `HealthChecks`), and another run, or
another setting of the same one, shows what happens without it.

`Feedback`, `Routing`, `Accounting` and `Conversation` have no liveness property
and no fairness.

**Deadlock** is checked for the breaker and the configuration. The others have
finitely many requests, jobs, tokens or messages and stop when all are answered.

### What the violations say

1. *A breaker may never close again.* `allows` spends a half-open probe for
   whoever asks. The router (for `explain` it only asks) and `readyz` ask
   without calling; when the probes are
   spent that way no outcome arrives, and only an outcome leaves half-open. A
   single routed request that is checked by the router and again by the dispatcher
   uses two; a budget that is not a multiple is enough.
2. *Tokens of rejected requests stay reserved.* `prepare`'s failure path releases
   the slot only, whereas the module promises both.
3. *A broken stream is silent.* Transport errors after the response was opened are
   not translated, so the in-band error branch is not reached.
4. *A replica may serve an old document with the new version.* `INCR` comes before
   `SET`; a replica that loads in between records the new version with the old
   document and considers itself up to date. The comment in `redis_store.py`
   claims the opposite order.

Where code and documents differ without a run of their own:

- Reservations are "released exactly once, including on failure paths"
  (`service.py:8-10`): not every slot is. `complete` releases it after a
  `ChatRouterError` only (`service.py:464`), so an error of the storage in the
  cache or in the load tracker leaves it taken until the gauge's key expires, after
  an hour without traffic of the tenant. A stream releases it in the `finally` of
  its generator (`service.py:510`), which does not run if the client leaves before
  the first chunk is asked for. These are the requests that
  `ImplementsReservation` excepts as `harmed`; at most once holds of them too.
- "Calls are rejected outright" while a breaker is open
  (`governance/circuit_breaker.py:22`): with model failover off a model is called
  up to `max_attempts` times after one question to its breaker
  (`upstream/dispatcher.py:76`), so the attempt after the one that opened it still
  goes out. Each caller that was permitted before may start `max_attempts` calls,
  one of them fewer (`OpenCallsBounded`).
- A breaker "isolates a failing upstream" (`governance/circuit_breaker.py:3`).
  `record_failure` comes before the question whether the error is "a genuine client
  error" (`upstream/dispatcher.py:91-95`), so a 4xx of a working upstream counts as
  a failure of the model, as a probe too: malformed requests isolate it for
  everybody and keep it isolated, the third case of `RecoversOrStarves`.
- "A cached answer can never outlive the model the session is pinned to"
  (`service.py:593-595`): the TTL of the binding is read in one command and used in
  another, and the entry gets the time between the two on top
  (`CacheOutlivesByDelay`).
- The accounting of a stream whose model a reload has removed meanwhile returns
  before it reconciles or books anything (`service.py:664`).
- `routing.default_model` is described as the "fallback target when routing yields
  no candidate" (`config/models.py:391`). Routing raises in that case
  (`routing/router.py:153`); the default is appended to every fallback chain
  instead, unchecked: it may lie above the tenant's "hard ceiling"
  (`config/models.py:153`), among its denied models or among the request's
  exclusions. `TenantPolicy` states exactly this exception.
- After a failover the cached answer is stored under the key and the name of the
  routed model (`service.py:597`), not of the one that answered, as
  `ResponseCache.put` says of it (`cache/response_cache.py:99`).
- When some models lack a feature and others the window, the constraints are
  relaxed together, the window included (`routing/router.py:417`).
- An exhausted quota under `downgrade` is to "continue on the cheapest tier"
  (`src/README.en.md:86`, `governance/quota.py:83`). It lowers the target tier of
  the routing only: a named or pinned model, the session's model, a tier hint, an
  upgrade or a fallback may still answer at full price.
- A session stays on its model within the allowed drift even if that model is
  below what the task needs (`config/models.py:378` says otherwise).
- Turns that overlap lose each other's prefix tokens (`service.py:744`); they only
  make the binding poorer (`PrefixNotInflated`).
- "If the protected head/tail alone exceeds the budget, trimming ... records the
  fact honestly in the decision `notes`" (`src/README.en.md:119`): only if there
  was a middle to cut. Otherwise the result is dropped with its notes
  (`service.py:849`); `TrimSound` states exactly this exception. The notice may
  also push the trimmed prompt over the window when the output reserve, not the
  ratio, sets the budget: the note says so in this case. Cutting may separate a
  tool result from the call it answers.
- "A hard task won't be quietly downgraded just because the user said 'ok'"
  (`src/README.en.md:29`): it is, in the first two turns of a thread without
  complaints, when the thread with the "ok" scores below the standard tier's
  threshold (the trivial-turn shortcut, `NeverForgotten`'s `Pleasantry`). A
  question scored as premium, a plain answer and an "ok" come out as economy. And
  "never forgotten" (`src/README.en.md:28`) ends with `max_messages_analysed`.
- A stream whose provider reports no prompt tokens is billed for its estimate and
  counts without it in the model's window (`LedgersAgree`'s exception).
- "Only the sections present in the body are replaced" (`api/routes.py:187`): the
  others are replaced by what the answering replica serves. One that has not caught
  up takes another replica's update of them back, without any overlap in time;
  `OnlyGivenReplaced` states exactly this exception.
- The correction of a model's tokens goes to the window of the minute of the
  release (`governance/load.py:128`), which may become negative and let more
  through.

An update that dies between its two commands leaves a version without a document.
The versions converge nevertheless; that the documents do is promised only for the
setting of `config` without such mishaps.

## 4. The proofs

All hold for every value of the constants under the named assumptions, which say
that requests (callers) form a finite set, limits and estimates are naturals, the
breaker's thresholds positive, and that no answer spends more than `MostTokens`
and `MostCost`.

**`Sums`.** The token window, the estimate of a prompt and the score of a thread
are sums over sets, which the community modules define by a recursive function on
subsets. The prover cannot use a scheme of induction, but it can use that a
well-founded set has a smallest element: the cases of a claim are put as a set,
and the smallest case outside of it is refuted (`SubsetInduction`). That there is
exactly one such function, that any element may be taken out first, and that sums
are monotonic follow.

**`GatewayProofs`, the limiter.** `TypeCorrect`; then `GaugeCorrect` and
`ConcurrencyCorrect` from `ConcurrencyInv`, which has the types but for the upper
bound of the gauge (`Typed`); this follows from its exactness. The limit itself is
not inductive because a check compares with the gauge, not with the number of
holders, so the invariant adds that the gauge equals the number of outstanding
increments (`GaugeExact`) and that only admitted requests are ever freed. A
request that is let through saw a gauge within the limit, hence few enough
holders. `RpmBudgetCorrect` and `RpmOvershootCorrected` come from `RpmInv`: the
window counter is the number of increments of this minute less all rollbacks
executed in it, stray ones included, and each request moves the counter at most
once each way. `TokensAreAccurate` and `TokenBudgetCorrect` come from `TpmInv`:
`TpmAccurate` is about moments without a pending rollback, so the invariant sums
over the requests before theirs as well (`Weighing`); a request weighs what it was
projected to cost until it is reconciled, and reserves once (`ReservesOnce`), so
each step changes one summand or none, or moves tokens for another minute
(`TpmMoves`).

**`CircuitBreakerProofs`.** `TypeCorrect`, `ProbesBounded`,
`ClosedIsBelowThreshold` and `OpenCallsAreBounded` from `BreakerInv`. The probe
bound needs that the history of probes is covered by the breaker's own counter
(`ProbesCounted`) and that probes belong to callers that were permitted and have
not ended (`ProbesUnderway`), because late calls of an older period also end in
this one. The calls of an open period are bounded because `allows` lets nobody
start afresh in it: a caller on its way has made at least as many calls on its
permission as in this period (`StraysOwed`), and the one whose failure opened it
has made one more (`OpenedByOne`).

**`FeedbackProofs`.** `TypeCorrect` and `NoSampleIsLost` from `StatsInv`: a job
that may write unchecked has seen as many successes of others as it has made
attempts, and each job succeeds once per record (`Once`, counted by `Counting`
with the versions of the record), so with at most `MaxTries + 1` jobs nobody else
is left to be overwritten. `RatingsCountOnce` from `RatingInv`: a claim takes the
request's record away, so one rating at most is on its way (`OneClaim`).
`AcceptedRatingsCount` follows from both.

**`RoutingProofs`.** `TenantPolicyKept`, `PrefixIsNotInflated` and
`CacheOutlivesByDelayOnly` from `RoutingInv`. Lemmas about the decision come
first: what is scored is allowed (`ScoredAllowed`; the widest model exists because
the models are finite, `WidestIn`), and what `_build_fallbacks` returns is allowed
but for a default in the last place (`FallbacksKeepPolicy`, `ChainKeepsPolicy`).
The prefix needs that every remembered prefix is a booked one too, the cache that
the TTL a turn has read is at most what the binding has left and the seconds
since, until its entry is put (`LifetimeInv`). `SessionsStay` and
`PrefixesAccumulate` need `CalmInv` besides: while turns follow one another the
binding has the prefix the turn under way has read, and between choices the model
that answered last.

**`GatewayProofs`, the service.** The service is shown to be a correct user of the
limiter: `ServiceInv` says what a request at each await is entitled to (it holds
its slot from admission to the release, and its tokens are unsettled until it
fails or is accounted), so every step of `Gateway`, exceptions included, is a step
of `RateLimiter` or a stutter (`LimiterIsUsedRightly`), and what is proved of the
limiter holds of the service (`ServiceKeepsConcurrency`, `ServiceKeepsBudgets`).
`SlotIsHeldWhileServing` follows directly. `GatewayTypeCorrect` needs that the
chain of a request before a model is not empty (`ModelInv`). `ModelGaugeIsExact`
is by what a step does to the requests on a model: it takes one in or lets one go
together with the gauge, or neither (`StepMovesGauge`, `GaugeFollows`).
`FirstByteIsCommitment` needs that a request of which anything was sent stands
where no attempt is made (`CommitInv`). `ServiceKeepsReservation` is the safety
part of the refinement: each step takes a slot, refuses one, gives one back or
stutters (`CallMovesSlot`), and a slot that is taken is one of at most
`MaxConcurrency` because those who hold one are outstanding increments
(`HeldAreCounted`). Since a request holds its slot until the gauge is decremented,
the proof is one about the limiter, of which the service is a correct user; a
rollback on the way of a refused request is told from that of its failed increment
by what the request has taken already (`SlotInv`). It is stated for a limit that
is not 0, which is no limit. `DispatchEndsSettled` is the safety part of
`DispatchSettles`: `Settling` says how far a dispatched request is with settling
its tokens and is kept by every step, from the walk on; that dispatched requests
end is then all that is left to fairness (`EndingSuffices`).

**`AccountingProofs`.** `SpendOvershootIsBounded`: the bound
counts what is booked and what is under way, since a booking moves one to the
other; a request that is let through found the usage below the limit, and `peak`
has grown with it. `GaugeIsHonest` and `LoadOvershootIsBounded` from `LoadInv`:
the gauge is exact while its key exists, so no correction happens then, and after
a loss it is too low, never too high; the overshoot is bounded in the same way as
the quota's, with the requests between look and gauge for those under way. What
one request carries (attempts left, tokens in the windows) is `LocalInv`.
`Accounting` uses both modules legally (`StepOfQuota`, `StepOfLoad`), so their
theorems hold of it (`ServiceKeepsQuota`, `ServiceKeepsLoad`); `LedgersDoAgree`
adds that a booked request was served, or cached without having been dispatched
(`BookedFrom`).

**`ConfigReloadProofs`.** `TypeCorrect` holds of every deployment: that no group
acknowledges a message that was not sent needs that tasks act in running replicas
only (`ActsWhenRunning`) and that a watcher at work has a message before it
(`WatcherHasMessage`), and reading that message needs the group (`HasGroup`).
`ReloadsFetchWhatIsAnnounced` and `UpdateKeepsOtherSections` are about deployments
in which nothing overlaps and, an assumption of the theorems (`Uninterrupted`), no
writer is torn from its write by a stop or a failing command: a version without a
document would be left. `AloneInv` has three parts. A busy admin is the only busy
actor and replicas start one at a time (`Exclusive`); the stored document is that
of the version unless a writer has yet to store it (`StoredFollows`); what a
replica serves that has loaded or has caught up is the stored document
(`ServedFollows`). Most steps leave version and document alone (`QuietStep`); the
two commands of the two kinds of writes are by themselves. Beside it,
`KnownVersions`: no version is announced, applied or in hand that was not given
out. `CaughtUpServesTheStored` states what the reconciler relies on, that a replica
with the stored version has the stored document; so the documents converge if the
versions do (`VersionsSuffice`), under the same assumption.

**`ConversationProofs`.** All three properties of `Conversation`, for threads of
any messages and any length. `ThreadInv` says that what was scored and sent on is
the thread that was asked; the rest is about the pure functions.
`TrimmingIsSound`: the loop that pops the middle message by message ends at the
first place where it may stop (`RemovedIsFirstEnd`, an induction downwards from
the end of the middle), what is left is in one piece (`RestInOnePiece`), and its
estimate is a sum (`CountIsSum`). `ScoreIsMonotonic`: every step of the analysis is
monotonic, with the rounding of each division: quotients, saturation, the mean
with its recency weights (`DecayPower` is a recursive function, unfolded by
induction upwards), a value raised part of the way to a peak that rises too
(`RaisedMonotone`), blend, shortcut and inheritance; it holds for all weights,
decays, memories and thresholds of `ComplexityAssumption`. `HardThreadsStayHard`
gives the lower bound: what a turn has shown is kept by the memory alone
(`MemoryKeeps`), the signal counts as dominant (`DominantIsGreatest`), and the
blend has 60% of that. It assumes of the parameters that this is enough
(`DemandsOutlast`, `FollowUpsInherit`); the run evaluates both for the defaults.
Neither holds by much: a demand of 700 contributes at least 252 thousandths, and
the economy tier ends at 250; a follow-up inherits at least 570, and the standard
tier ends at 550. A deployment that lowers `escalation_memory` or gives another
signal more weight than `reasoning_keywords` is not covered.

**Only model-checked.** Liveness, which the prover does not do: the breaker's
`RecoversOrStarves`, the gateway's `DispatchSettles` and `ImplementsReservation`,
`VersionsConverge` and `ConfigsConverge`. Of the gateway's two the safety part is
proved (`DispatchEndsSettled`, `ServiceKeepsReservation`), and two of the five follow
from simpler ones (`EndingSuffices`, `VersionsSuffice`).

## 5. What is not modelled, and why

The feedback normaliser, schema validation, message formats, metrics and logging
are data or output without interleaving. In the modelled components: the registry
swap during a reload (`service.py:171`), but for a model that is gone when its
stream is accounted; several updates at a time in one
replica, the credentials an update carries over from the served document
(`api/routes.py:201-213`); trimming of the stream and the memory backend's
notification queue, which serves one process; the loss of a consumer group. The
regular expressions of the analyser are represented by what they find. Its latent
escalation and explanations only go into headers. `is_saturated` feeds utilities,
which are free choices in `Routing`. The memory backend clamps a gauge in one
step, which is `CorrectGauge` without the gap.

`LoadTracker` and `Accounting` follow one model: a request that goes on to another
model of its chain is not booked there on account of the first. Exceptions and
cancellations in the middle of the dispatcher are `Gateway`'s.

## 6. Plan

Done: `RateLimiter`, `CircuitBreaker`, `Gateway`, `Reservation`, `ConfigReload`,
`Feedback`, `Routing`, `Quota`, `LoadTracker`, `Accounting`, `Complexity`,
`ContextFit` and `Conversation`, with proofs of every safety property the runs
check. What is left, by importance:

1. The chain of several models in `Accounting`.
2. The loss of a consumer group and the trimming of the stream in `ConfigReload`.
3. The registry swap of a reload, which replaces breakers and load trackers under
   requests that hold the old ones.

Runs are kept few, one per question. New modules share a run with the component
they extend where they can.

# Verification of the rate limit gateway

TLA+ models of the gateway in `src/`, the TLC instances that check them and the
TLAPS proofs about them. The source is the reference: every definition that
models code is mapped to its lines in `PROJECT.json` ("map"). Paths below are
relative to `src/`.

## 1. The system and its parts

A gateway *replica* (one Go process) stands between callers and an upstream.
Each request is resolved to a tenant, asked of a limiter that runs a Lua script
in a Redis shared by all replicas, and proxied or refused. A circuit breaker
guards the limiter; when no decision can be made a failure policy answers. A
second, "admin" listener serves metrics and an operator's dashboard.

| Component | State | Operations | Talks to | Hard behaviour | What makes it correct |
|---|---|---|---|---|---|
| Circuit breaker, `internal/breaker/breaker.go` | position, failure count, probe count, time of opening, all under one mutex | `Allow`, `Success`, `Failure`, `State` | called by every request handler | verdicts that come back after the position has changed; a half-open state without a timer; clock | never stuck half-open; a dead Redis costs few calls; stale verdicts decide nothing |
| Rate limit middleware, `internal/middleware/ratelimit.go`, `metrics.go` | breaker gauges, counters | `Wrap`, `recordBreakerState`, `applyFailurePolicy` | breaker, limiter, resolver | handlers interleave; every return path owes the breaker one verdict; clients that leave | protocol kept, every request answered, enforcement comes back, gauges settle |
| Limiter calls, `internal/limiter/redis.go`, `limiter.go` | none of its own; stamps | `Allow` | Redis | stamps come from the replicas' clocks; scripts run later, in any order; replies get lost, the client resends | see the scripts |
| Token bucket, `scripts/token_bucket.lua` | tokens, `updated_at`, time to live | one script | Redis clock and stamps | older stamps after newer ones; expiry; fractions | burst + rate x time; expiry forgets nothing |
| Sliding window, `scripts/sliding_window.lua` | log of admitted calls, time to live | one script | same | a later stamp trims what an earlier one needs | limit per window, honest retry hint, no throttling without cause |
| Fixed window, `scripts/fixed_window.lua` | one counter per window, time to live | one script | same | two clocks: windows by stamps, expiry by Redis | limit per aligned window, twice the limit for any other |
| Process life cycle, `cmd/gateway/main.go` | two servers, error channel, signal, drain deadline | `run` | both listeners | goroutines that start late, a listener that fails, signals, requests that never end | the drain loses nothing, takes nothing new, ends |
| Operator dashboard, `internal/dashboard/dashboard.go`, `static/app.js` | process start time and counters; page: baseline, history, failure count, status | `handleStats`, `handleSimulate`, `poll`, `runSimulation` | registry, breaker, limiter | overlapping polls, two readings per reply, restarts | rates are real; a dead gateway is noticed, and a live one too |
| Caller console, `internal/console/static/app.js` | page: flood flag, loops, meter, dot grid, log | `sendBurst`, `toggleFlood`, `record`, `clear-log` | gateway listener | loops that overlap when toggled; replies that come back in any order; answers without quota headers | the burst's answers in the limiter's order; log and grid agree; loops end; the meter tells the policy |
| Explainer overlay, `static/explain.js` (same file beside both pages) | panel, tab, view, filter, marks, popup, `localStorage` | `boot`, `open`, `close`, `markTerms`, `showPop` | the page's text, which the page's script rewrites; other windows, through storage | a greeting on a timer; links of any form; private browsing | the longest term is marked once; a greeting is scheduled only for strangers |
| Tenant resolution, `internal/tenant/tenant.go` | read-only maps | `Load`, `Resolve`, `Tiers`, `Tier` | middleware, dashboard | none: no operation changes state | not modelled |
| Configuration, `internal/config/config.go` | none | `Load` | `run` | bounds not enforced (see section 5) | not modelled |
| Upstream proxy, `internal/proxy/proxy.go` | none shared | `New`, `Observe` | upstream | I/O | not modelled |

## 2. Modules

| Module | Models | Composes / relates |
|---|---|---|
| `Breaker` | the breaker and the calls it guards, each call with its age | |
| `CircuitPromise` | abstract specification: what a breaker promises, without probe counters or clocks | implemented by `Breaker` under `PromptCalls` (`KeepsPromise`) |
| `Gateway` | handlers of `Wrap` in steps, breaker gauges, failure policy, Redis up and down | extends `Breaker`, whose callers are the handlers and whose outstanding calls are those inside the limiter; `BreakerProtocol` says that the composition is a behaviour of `Breaker`, and `KeepsPromise` of `CircuitPromise` |
| `LimiterCalls` | `RedisLimiter.Allow`: stamping, sending, replies, losses, one resend, time | extended by the next three |
| `TokenBucket`, `SlidingWindow`, `FixedWindow` | the three scripts, key expiry, restarts of Redis | |
| `Replica` | `run`: start, two listeners, select, drain, crash | |
| `Dashboard` | `handleStats` and `poll` across the ends and restarts of the process | its process is `Replica`'s, reduced to up and down |
| `Console` | the caller's page: bursts, flood loops, what it makes of an answer | its gateway answers as `Gateway`'s handlers do, with the outcomes of `Answers` |
| `Explainer` | the overlay: panel, links, greeting, marks, popups | |
| `MCExplainer` | the console's text and what its script writes into it | |
| `MCTokenBucket`, `MCSlidingWindow`, `MCFixedWindow` | symmetry sets for TLC | |
| `GatewayProofs` | theorems about `Breaker`, and what follows for `Gateway` | `Breaker` implements `CircuitPromise` |
| `FixedWindowProofs`, `SlidingWindowProofs`, `TokenBucketProofs`, `ReplicaProofs`, `DashboardProofs`, `ConsoleProofs`, `ExplainerProofs` | theorems about the module of that name | |

### How state and actions correspond to the code

*Breaker.* `state`, `failures`, `probes` are the fields of the same name. Each
method holds `b.mu` throughout, so each is one action: `Allow`/`Reject` for the
two results of `Allow`, `Success`, `Failure`. The clock is only ever used in
`now - openedAt >= cooldown`; `openFor` keeps that difference and saturates.
`calls` and `age` are the calls whose verdict is outstanding. `fresh` and
`wasted` are ghosts: the calls admitted since the position last changed, and
the failed calls since the breaker last had reason to hope.

*Gateway.* One handler runs `Arrive`, `ReadPosition`, three `SetGauge`, then
`Call` or `Refused`, `CallDecided` or `CallFailed`, then `Enforce` or
`ApplyFailurePolicy`. A step of one handler may come between any two of
another. The limiter's decision is a free choice, since it is the subject of the
limiter modules. A call fails because Redis does not answer (`hurt`), because
its client left (`ClientsCancel`), or with Redis in good health (`LimiterErrs`):
the random suffix, the wait for a connection, the form of the reply
(`redis.go:103-127`).

*Limiter calls.* `now` is Redis's clock in milliseconds; a stamp is at most
`MaxLag` behind it when its script runs (clock spread of the replicas plus
network plus queue). `Decide` is a script whose reply arrives, `LoseReply` one
whose reply does not: go-redis then resends the same arguments or gives up.
`Fail` is a call whose script does not run. A script is atomic in Redis and is
one action. Tokens are exact: `Window` units to a token, so a millisecond
refills `Limit` units. `Restart` empties Redis, which is deployed without
persistence (`deploy/docker-compose.yml:20`).

*Replica.* `phase` is the place of `run`: `starting` (line 43), `serving` (the
select of 216), `draining` (228), `closing` (231), `down`. `listener` and
`busy` are the two `http.Server`s. What `net/http` does is external: `Shutdown`
closes the listener, prevents a later `ListenAndServe` and returns when no
request is left or the context ends, without cutting requests off; the exit of
the process does that, and `cut` remembers it. A request is taken up with its
connection: the first request of a connection accepted just before `Shutdown` is
still served, and `Shutdown` waits for it, so it counts as taken up before.

*Dashboard.* `Ask`, `Gather`, `Stamp`, `Deliver` are one poll: the request, the
two readings of `handleStats` (counters at line 137, uptime at 145) with the
ping of Redis, and the page's handling of the reply. `Miss` is the `catch`
branch. Polls overlap, because the timer does not wait for a reply and a burst
adds one. `Due(p)` says that delivering the answer of `p` will draw a sample, so
an invariant can speak of every sample that is ever drawn. Ghost `old` marks
statistics of a process that has ended.

*Console.* The page runs in one thread, so a piece of code between two awaits is
one action: `SendBurst` is a click up to the first `fetch`, `Record` what happens
from the return of a `fetch` to the next await of the loop that sent it (`record`
and `Continue`), `Wake` the end of a flood loop's pause. `loop[f]` is the place
of a flood loop, `left` the rest of the burst, `asked` the requests on their way
and `decided` the answered ones in the order of the gateway. `status`, `badge`,
`dots` and `log` are the texts and lists of the page.

*Explainer.* `isOpen`, `tab`, `body`, `filter` are the panel's classes and
content; `marks` and `pop` the underlined terms and the popup; `timer` is the
pending `setTimeout` of line 459, `seen` the key in `localStorage`, `private`
whether storage throws. A text node is a sequence of words; `Done(nodes)[n]`
is the code's set `done` after the first `n` nodes, a recursive function, and
`MarkTerms` marks each node given the terms done before it. Ghost `met` says that the
panel has been opened so far, in whatever window and by whatever load of the page.

## 3. Runs

| Run | Instance | What it shows |
|---|---|---|
| `breaker_slow` | 3 callers, threshold 2, 1 probe, cooldown 2, calls up to 3 ticks | calls may outlive the cooldown, so stale verdicts meet every position; still never stuck half-open (`ProbeOutstanding`, `Recovers`), the count tells the position, and a dead Redis costs at most `Threshold + callers - 1` calls |
| `gateway` | 2 handlers, threshold 2, 1 probe, cooldown 2, calls up to 1 tick; clients may leave and calls may fail on a healthy Redis | protocol on every path; with calls shorter than the cooldown only probes are in flight while half-open and only they judge, so the gateway implements `CircuitPromise`; every request answered, enforcement resumes once calls no longer fail, the gauges settle on the position (`GaugesSettle`) |
| `fixed_window` | 4 calls, limit 1 per 3 ms, lag 1, 6 ms, resends, restarts | aligned windows keep the limit, and any other stretch twice the limit, however scripts are ordered |
| `sliding_window` | the same calls, limit 2 per 4 ms, lag 2 | the limit on every stretch shorter than the window by the lag, the exact limit for a call with the newest stamp (`NewestSeesLimit`), an honest hint, no throttling without cause |
| `token_bucket` | the same calls, limit 1 per 2 ms, burst 1, lag 1 | what is handed out beyond the budget is at most what a turned back clock is refilled again; expiry forgets nothing; no script drains the bucket |
| `replica` | 2 requests, 1 admin request, grace 2 | drain and end of a process, through any number of lives |
| `dashboard` | 2 polls, uptime to 3, 1 decision per tick, stamp lag 1 | sampled rates are real within a process; the page notices an end and a return, and tells Redis's state from the gateway's |
| `console` | 2 flood loops beside a burst of 1 or 2, 2 identities, 2 dots, 1 row | the burst's answers in the limiter's order, log against grid, every loop ends |
| `explainer` | the 9 text nodes of the console that matter, 3 of them rewritten; all links; private or not | marks; whom a greeting is scheduled for |
| `fixed_window_late` | lag 3 within a window of 4 | *violation*: a late script finds its counter expired, three calls in one window's length at limit 1 |
| `gateway_cancel` | clients may leave, calls fail for no other reason | *violation*: clients that leave open the breaker on a healthy Redis |
| `console_degraded` | one request | *violation*: the meter never says that quotas are not enforced |

**Bounds and why they are enough.** Thresholds of 2 distinguish "below",
"at" and "past" the threshold; one more caller than the threshold (and, in
`gateway`, than the probes) leaves one to be stale or refused. A cooldown
shorter (`breaker_slow`) and one longer than the calls (`gateway`) are the two
regimes that `PromptCalls` separates. Four calls against a limit of 1 or 2 fill a window, overflow it and
leave calls for the next one; `MaxNow = 6` covers two windows and a key expiry
(one and a half for the sliding window, whose log has no alignment). `MaxLag`
of 1 and 2 puts stamps out of order with the one before; 3 lets a counter expire
inside its own window. Each call resends once. The limiter calls are
interchangeable, so the instances without liveness use symmetry. Two polls are
the overlap that the timer and a burst produce; three ticks of uptime are the
shortest in which a sample can exceed its own length by more than the stamp lag.
Two flood loops are what toggling off and on within a pause gives, and the
shortest grid that can be longer than the log is 2 against 1 (200 against 60 in
the code); a burst of two has an order. The explainer's page is the console's,
node by node, as far as a node mentions a term or is rewritten.
The limiter instances stop when all calls are decided and the clock has reached
`MaxNow`; only they switch deadlock checking off.

**Fairness.** `Breaker`: the clock runs; a call returns by its deadline (the
limiter's context has a timeout, `ratelimit.go:94`); traffic does not dry up,
which is an assumption about callers, needed because only a request moves the
breaker out of the open state. `Recovers` further assumes that failures end.
`Gateway`: the Go scheduler runs every handler, the deadline ends every call,
requests keep arriving; nothing about Redis. `EnforcementResumes` assumes for
itself that Redis stays up and calls stop failing otherwise, `GaugesSettle` that
the position stays. `Replica`: the main goroutine is
scheduled and time passes; nothing about requests or listeners. `Dashboard`:
the timer keeps polling and each `fetch` ends; nothing about the process.
`Console`: each `fetch` ends, by an answer or an error, and each timer fires;
nothing about the visitor, so `EveryLoopEnds` presumes for itself that floods
are stopped. All are weak fairness of the system's own steps. The limiter
modules and `Explainer` state only safety and have none.

## 4. Findings

1. *Fixed window, late scripts* (`fixed_window_late`). The counter's life is
   one window counted from its creation on Redis's clock, its window is that of
   the stamps. A script that runs three milliseconds late finds the counter
   gone. The documents call twice the limit the real worst case. It holds, and
   is proved, for lags of at most a millisecond (`TwiceLimit`). For later scripts
   the worst case is proved too: if `MaxLag <= (lives - 1) * Window + lives`, an
   aligned window admits at most `lives` times the limit (`LateWindowLimit`) and
   any stretch of a window's length twice that (`LateTwiceLimit`): four times the
   limit for any lag of up to a window.
2. *Departing clients open the breaker* (`gateway_cancel`). The deadline of the
   limiter's call derives from the request's context, so a client that leaves
   cancels it, and the handler reports a failure of Redis. The run has departing
   clients alone; the other errors of a healthy Redis (`redis.go:103-127`) open the
   breaker in the same way.
3. *Degradation is not shown* (`console_degraded`). `updateMeter` returns when
   a response has no `X-RateLimit-Limit` (`console/static/app.js:143`), and a
   degraded response has none (`ratelimit.go:133-145`), so "degraded — quota not
   enforced" (line 168) is dead code and the last decision's text stays.

Met while modelling, without a run of their own:

* ADR-0003 prices the discovery of a dead Redis by ten replicas at "up to `10 ×
  threshold` failed calls" (`docs/adr/0003-circuit-breaker-around-redis.md:50-51`).
  Calls in flight when the breaker trips fail as well, so the bound is
  `Threshold + callers - 1` for each replica (`DiscoveryCost`, checked and
  proved), and the run reaches it.
* Token bucket scripts that run out of the order of their stamps write
  `updated_at` back to the older one, and the same time is refilled again. The
  cost is at most the distance by which the clock was moved back
  (`RewindsAreRefilledAgain`, checked and proved). So the quota is overdrawn by
  what the rewound time refills and no more (`OverdraftIsRewound`), at most a
  lag's worth for each script (`RewindBounded`); in order, the documented quota
  (burst and rate times time, `README.md:192-200`) holds (`InOrderQuota`,
  proved).
* Sliding window scripts out of order: a later stamp drops an entry that an
  earlier one still needs, so "exactly accurate at window
  boundaries" (`limiter.go:19-20`) holds for stretches shorter than the window by the lag
  (`AccurateUpToLag`, checked and proved), and for whole windows only as far as a
  call carries the newest stamp sent so far (`NewestSeesLimit`, checked and
  proved as `ExactForNewest`). A lag of up to half a window costs at most
  another limit's worth (`LagAtMostDoubles`, proved).
* In `Gateway` two handlers that read different positions can leave two gauges,
  or none, at 1, since the read and the three writes of `recordBreakerState` are
  not atomic (`ratelimit.go:156-165`), until a later request publishes. They do
  settle when the position does (`GaugesSettle`).
* "Each square is one real request in order" (`console/static/explain.js:23`)
  holds among the requests of a burst (`InLimiterOrder`). A flood beside it has
  requests of its own on the way, and their answers come in any order.
* In `Dashboard` a sample from the statistics of two different processes
  (`app.js:224-232`) may be a rate that never was, when the new process is
  already older than the old one was at its last poll; until then no sample is
  drawn at all. `RatesAreReal` says nothing of such samples. An older reply that
  overtakes a newer one makes the cards go back for a moment.
* `describeTier` (`console/static/app.js:182-190`) knows the limits that the
  token bucket advertises; under the other algorithms the free, pro and internal
  tiers read "custom". The log's detail says "allowed" for a 502 of the upstream
  and for the 503 of the fail-closed policy (lines 228-234).
* `markTerms` stops at a node's first mark (`explain.js:437`), so a term that
  only occurs beside a longer one stays unmarked everywhere, and a badge that
  the page rewrites loses its mark for good. `views[hash[1]]` (line 453) also
  finds names that every object inherits: such a link leaves no tab highlighted.
  The greeting of line 459 asks nothing when its 600 ms are over: a visitor who
  has opened the panel in the meantime, in this window or another, is greeted
  again, and one who reads another view is taken back to the first.
  `OnlyStrangersAwaitGreeting` speaks of the moment at which the greeting is
  scheduled, since no document promises more.

## 5. Proofs

Checked by TLAPS for every value of the constants that the named assumptions
allow.

* **Breaker** (first part of `GatewayProofs`). `IInv` joins the type invariant with: the
  count tells the position; a half-open breaker's probe counter is the number
  of fresh calls, and there are some (`ProbeOutstanding`); calls in
  flight while the breaker is open are at least as old as its trip, and in the
  half-open state, with prompt calls, every call is a probe (`StaleIsOld`); the
  wasted calls and the calls still able to fail add up to the bound
  (`WasteCounted`). Neither `OnlyProbesInFlight` nor `DiscoveryCost`
  is inductive without the last two: the first needs the age of the calls left
  over from before the trip, the second the calls that may still fail. Under
  `PromptCalls` (`CallTimeout < Cooldown`) `StaleIsOld` leaves no stale call in
  the half-open state, from which `ProbesBounded`, `ProbesJudge` and the
  refinement follow: the breaker implements `CircuitPromise` step by step.
* **Gateway** (`GatewayProofs`). Every step of the gateway is a step of its
  breaker or leaves it alone (`KeepsProtocol`), so `GatewaySpec =>
  BreakerProtocol` (`Protocol`), and the theorems about the breaker carry over
  by composition: `GatewayNeverStuck`, `GatewayDiscovery`, `GatewayProbes` and,
  under `PromptCalls`, `GatewayPromise`.
  The inductive invariant is the type invariant, with the breaker's outstanding
  calls being the handlers inside the limiter, and the breaker in one of its
  positions.
* **Fixed window** (`FixedWindowProofs`). The invariant says how often the counter
  of each window has been made (`CountersCover`, `MadeTimes`): all but its last
  life admitted up to the limit each, the last one covers what it admitted, and
  a counter made for the n-th time expires no earlier than n windows and n - 1
  milliseconds after the window began. A script that finds it expired is at
  least as late as that, so `LivesSuffice` bounds the lives. `WindowLimit` is the
  case of one life, which is `PromptScripts` (`MaxLag <= 1`); `TwiceLimit` and
  `LateTwiceLimit` add that a stretch of a window's length meets at most two
  aligned windows. Types hold for any lag, since `MaxLag + 1` lives suffice.
* **Sliding window** (`SlidingWindowProofs`). The invariant is that the log
  still holds every admitted call that a stretch of `Window - MaxLag` could
  share with a call to come (`LogComplete`). It needs no assumption on the lag.
  `LagAtMostDoubles` covers a window by two such stretches.
  `HonestHint` needs two more facts: the log never holds more than the limit
  (`LogBounded`), and a log that is not empty has an oldest entry, by
  well-founded induction on its finite set of scores. `ExactForNewest` needs to
  know why an admitted call is no longer in the log: some call already sent is a
  window younger (`DroppedForNewer`). That is so after an expiry too, because
  the key outlives every admitted call's window by the slack (`KeyOutlives`),
  provided the slack covers the lag (`KeyCoversLag`, `MaxLag <= Slack + 1`; the
  code's slack is a second).
* **Token bucket** (`TokenBucketProofs`). The invariant is that the key of a
  bucket outlives its full refill, counted from the moment of the script
  (`KeyOutlivesRefill`); types, `NoScriptDrains` and `HonestHint` (the hint in
  milliseconds suffices, and is not one too long) follow for any lag. The
  account `tokens + spent * Window <= Full + Limit * (updated - since + rewound)`
  also needs `SlackCoversLag` (`MaxLag <= Slack`, a second in the code), since an
  expired bucket is remade full: the slack makes sure that it would have been
  full for every call in flight (`ExpiryIsHarmless`). `OverdraftIsRewound`
  and `InOrderQuota` are what the account says about tokens handed out.
* **Replica** (`ReplicaProofs`). The invariant describes the listeners and
  requests phase by phase; its core is that `closing` is reached only with an
  idle gateway or a spent deadline (`Drain`) and that the gateway's listener is
  shut from the beginning of the drain on (`ShutOut`).
* **Dashboard** (`DashboardProofs`). `RatesAreReal` compares two statistics, so
  the invariant is about pairs: each of the present process is a *reading*, a
  count taken somewhere in a stretch of at most `StampLag`, and any two readings
  are consistent, the later one with no more than `PerTick` decisions per tick
  above the earlier. The baseline, the replies and the process itself are all
  readings, so no order of replies can tell them apart.
* **Console** (`ConsoleProofs`). `BurstInOrder` compares the burst's answers
  alone, wherever those of floods lie between them. It rests on `OneAtATime`: a
  burst has at most one request asked or decided at any moment, and none when it
  has ended. It also says that a page whose buttons are off has requests of the burst
  left, without which the type of the countdown is not inductive (`TypeCorrect`).
  `OneStory` rests on the shapes of grid and log and on `MaxRows <= MaxDots`.
* **Explainer** (`ExplainerProofs`). `LongestMarked` needs to know what
  `MarkTerms` computes for every page: that a term is done after a node exactly
  if some node up to it is marked with it (`Done` is a recursive function, which
  the library's induction theorems cannot be applied to, so the induction is
  over the set of node numbers for which the claim holds, `Climb`, itself proved
  from the least counterexample), and that the first of a set of terms is not
  shorter than any other, which orders the glossary by one number per term.
  `LongestWins` is inductive beside two facts: a marked node says the term it is
  marked with (`MarksOccur`), so a mark wiped out by a rewrite was of a term that
  this node may say, and nothing is marked before `boot` (`BlankUntilBoot`).
  `GreetsStrangers` needs that a browser which remembers has remembered whoever
  met the panel (`Remembered`).

Assumptions on the constants are named in the modules that declare them
(`BreakerAssumption`, `GatewayAssumption`, `CallsAssumption`,
`QuotaAssumption`, `GraceAssumption`, `DashboardAssumption`,
`ConsoleAssumption`, `ButtonsAssumption`, `ExplainerAssumption`); TLC evaluates
them in the runs.

**Model-checked only.** All liveness (`Recovers`, `Answered`,
`EnforcementResumes`, `GaugesSettle`, `SignalStops`, `GoneIsNoticed`, `BackIsNoticed`,
`EveryLoopEnds`): fairness and ENABLED are beyond the prover. Every other
property of a passing run is proved.

## 6. Not modelled

* The parsing of Redis replies and the `Remaining` and `ResetAfter` fields,
  which no step of the gateway reads again; the rounding of headers to seconds
  (`ratelimit.go:119`).
* Counters and histograms of the middleware, latency quantiles of the
  dashboard, and the drawing of both pages.
* The floating point of the token bucket: tokens are exact rationals.
* The simulator (`dashboard.go:244-306`). It calls the limiter past the breaker
  and adds to the same counters; each of its calls is one more call of
  `LimiterCalls`. Composed with `Dashboard` it multiplied the states by five and
  no property told its interleavings apart.
* Connections that a handler takes over, such as upgraded protocols through the
  proxy: `Shutdown` does not wait for them, and `DrainLosesNothing` does not speak
  of them.
* Tenant resolution and configuration: pure functions of files and environment,
  computed once at start. No operation changes state.
* The console's loading of its configuration, the countdown to the reset and the
  totals: each is written from one place and read by nobody.
* The explainer's wording, matching of the filter, styles and positions; nodes
  inside controls, which it skips.
* Upstream proxying, the readiness endpoints, scripts and deployment files: I/O
  or text without state shared with the rest. Of the deployment files only the
  lack of persistence of Redis (`Restart`) and the tiers of `tenants.json` are
  used.
* In `Dashboard`, the process starts to count at the moment the admin server
  listens; in the code the counters are registered a moment earlier.

## 7. Plan

Done, in this order: breaker and its promise; limiter calls and the three
scripts; the gateway; process life cycle; dashboard polls; console; explainer;
proofs of all of them; the bounds that hold for
late and reordered scripts.

What a change of the code would make worth adding: one abstract quota, "at most
N admitted in any stretch of length T", that the three limiters implement with
their own N and T, once they share a clock; the simulator, if it is made to ask
the breaker; tenants, if they become reloadable.

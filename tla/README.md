# A TLA+ model of engine-gateway

engine-gateway puts three front doors (HTTP/JSON, gRPC, Connect) before a set of
engines and takes every request through one chain of policies: authenticate,
authorize, resolve the tenant, rate limit, quota, resolve an endpoint, forward
through a circuit breaker, record metrics. This directory models the parts of it
that keep state and are used by many goroutines at once, the algorithms whose
results the chain relies on, and the life of the process from start to shutdown.
`PROJECT.json` maps every definition to the lines it models and lists the runs,
mutants, findings, hazards and theorems.

## Inventory

| Part | State | Operations | What is hard about it | What makes it correct |
|---|---|---|---|---|
| `retry.CircuitBreaker` | state, failures, successes, requests, openedAt (one mutex) | Allow, Success, Failure, Reset, Execute | Execute releases the lock while the call runs, so outcomes arrive in a later state; a panic loses one; half-open has no timeout | bounded probes, never wedged, open for exactly Timeout, closes after recovery |
| `retry.Execute` | loop variables | one loop with a call and a wait | cancellation races with the timer; cap and jitter | prompt stop, justified result, bounded wait, termination |
| `ratelimit.TokenBucket`, `FixedWindow`, `SlidingWindow` | a map by key (one mutex each) | AllowN, Remaining | boundaries of time; queries that write | never over budget, never refuses within it, Remaining agrees with AllowN |
| `ratelimit.Quota` | usage and limits by tenant (mutex) | SetLimit, Consume, Reset, Usage | charged before later refusals; limits lowered and usage reset between calls | usage equals what went past; refuses exactly the excess |
| `routing.Registry`, load balancers | endpoints by engine (RW mutex), round-robin counters (mutex) | Register, Unregister, SetHealthy, Get..., Next | two or three reads under separate locks, counter out of date | routed only to endpoints that were up, refused only when there was none, fair rounds |
| `routing.VersionResolver` | versions by engine (no lock) | RegisterVersion, Resolve | the order of version strings | best match, never moved back |
| `auth.RBACAuthorizer` | policies (RW mutex) | AddPolicy, Authorize | policies added during calls; hand-written sort and pattern matcher | the higher priority wins |
| authenticators, tenant resolver | maps filled at start | Authenticate, Resolve | each door reads credentials and tenant with code of its own | the doors judge a call alike |
| `gateway.Gateway`, `grpcserver.Server`, `connectgateway.Handler` | references to all of the above | handleRequest, Execute, health queries | concurrent requests interleave between any two locks; instances that are or are not shared; handlers that panic; health queries that read twice | conservation of tokens, quota and counts; every request comes to an end; honest health |
| `telemetry` | counters (mutex), spans, ID counter (no lock) | RecordRequest, StartSpan, log | unprotected counter, recursive formatting | counts add up, IDs are unique (they are not) |
| `protocol`, `grpcserver/envelope.go` | none | conversions | a path read two ways | as the RPC doors would read it |
| `config`, `cmd/gateway` | three servers in goroutines, the signal, one shutdown context | registration, start, graceful stop | goroutines that have not started when the signal comes; one time limit for stops that run one after the other; calls nothing ends | doors that were stopped stay quiet, only a server that never served is fatal, the process ends |

The front doors call the policy objects synchronously; there are no queues or
messages. Each object protects itself with its own lock, so one step of a model is
one critical section; where there is no lock (the ID counter, `g.server`), a step is
one access. Two `Gateway`-like instances run in one process: the HTTP
door, and the gRPC server which the Connect door calls too. They share the rate
limiter, the authenticator, the authorizer and the engine client; quota, breaker,
registry, versions and metrics exist twice.

## Modules

| Module | Models | State and actions |
|---|---|---|
| `BreakerOps` | the methods of CircuitBreaker as operators on its record | `openAge` stands for `time.Since(openedAt)`, saturating at Timeout |
| `CircuitBreaker` | Execute with concurrent callers and an engine that may recover | `Start`, `Refuse` (Allow), `Succeed`, `Fail`, `Panic` (end of fn), `Reset`, `Tick`; `probes`, `lost`, `openTicks` are history |
| `CircuitBreakerProofs` | | theorems about it |
| `Retry` | retry.Execute | `CheckContext`, `CallSucceeds`, `CallFails`, `Tick`, `WaitEnds`, `WaitCancelled`, `Cancel`; the policy is chosen in `Init` |
| `RetryProofs` | | theorems about it |
| `RateContract` | what a Limiter promises: a budget for every interval | abstract specification: `Grant`, `Tick` |
| `Limiters` | parameters, clock and grant history of the three limiters | no actions of its own |
| `TokenBucket`, `FixedWindow`, `SlidingWindow` | the three limiters | `AllowN`, `RefuseN`, `Prune` (Remaining of the sliding window writes), `Tick`; each INSTANCEs `RateContract` with its own budget |
| `Quota` | ratelimit.Quota | `SetLimit`, `Consume`, `Reset`; `charged` is history |
| `Routing` | registry, balancers, resolveEndpoint of both doors and the health queries, one engine | `Register`, `Unregister`, `SetHealthy`; a call goes through `ResolveEndpoint`, `Next1` (the read), `NextShared`/`NextFresh`/`NextWeighted` (the selection) or `Fallback`; a query through `LookUp`, `ReadEndpoints`, `ReadHealthy` |
| `RoutingProofs` | | theorems about it |
| `Versions` | VersionResolver, one engine | `RegisterVersion`, `Resolve`; a version is a sequence of parts and separators |
| `VersionsProofs` | | theorems about it |
| `Patterns` | matchPattern | operators only |
| `Authorization` | RBACAuthorizer; extends `Patterns` | `AddPolicy`, `Call`, `Copy`, `Evaluate` |
| `AuthorizationProofs` | | theorems about both: matchPattern, the sort and the decision |
| `Admission` | what each door makes of a call before the limiter: target, credentials, authenticators, tenant | operators only: `HTTPDoor`, `RPCDoor` and their parts |
| `Gateway` | the three doors; extends `BreakerOps` and `Admission` | a request takes `Admit`, `RateLimit`, `checkQuota`, `ResolveEndpoint`, `Allow`, `ForwardReturns` or `ForwardFails`, `Record`; `ResolvePanics` and `ForwardPanics` end it early, and at the gRPC door the process with it |
| `GatewayParts` | `Gateway` with the histories of `CircuitBreaker` and `RateContract`, and the two refinements | no actions of its own: a history is determined by the step; `Watched` is the instance whose breaker is looked at |
| `GatewayProofs` | | theorems about the composition, its parts and `Admission` |
| `Tracer` | StartSpan, EndSpan, generateID | `Load` and `Store` of the unlocked counter, `MakeID`, `AppendSpan`, `EndSpan` |
| `Deployment` | main, Start and Shutdown, parseEngines | `Boot`, `Notify`, `Signal`, `GracefulStopReturns`, `BeginShutdown`, `ShutdownReturns` are main's; `AssignServer`, `Serve`, `StopServing` the servers' goroutines; `Arrive`, `Answer`, `Panic` the calls; `Expire` the context's timer |
| `DeploymentProofs` | | theorems about it |
| `MCLimits` | one of the limiters or the quota, chosen in the initial state | `table` is the chosen limiter's map |
| `LimitsProofs` | | theorems about the three limiters and the quota |
| other `MC...` | values for the constants; `MCAuthorization` also enumerates the inputs of matchPattern | |

Abstractions worth knowing:

- Time is a clock in ticks; comparisons with it (`>=`, `After`) keep the direction
  they have in the code, so instants at a boundary are covered. Token fractions are
  whole units (`Unit` to a token); rounding of `float64` is not modelled.
- In `Gateway` the limiter is seen through its whole tokens and the endpoint through
  found or not found; `TokenBucket` and `Routing` have the detail. What comes
  before the limiter touches no state shared between requests and is one step; which
  requests pass it is `Admission`'s to say, and the authorizer, whose policies are
  in `Authorization`, may refuse any of them.
- In `Admission` a token validates or it does not, an API key is known or not, and a
  path is the sequence of its segments, of which some begin with v. The HTTP/1 parser
  of net/http removes the blank of an `Authorization: Bearer ` without a token, so the
  HTTP door sees that header only behind another server; the RPC doors may see it.
- Statements about all inputs of pure operators (`DoorsAgree`,
  `FirstOccurrenceSuffices`, `ShellMatchesAccepted`) are of the form `Init => ...`:
  TLC evaluates them once, in the initial states.
- In `Routing` queries share nothing with routed calls but the registry, which both
  only read, so a query is followed while no other call is under way.
- In `Deployment` the race on `g.server` is a choice: Shutdown may miss an assignment
  until Start has gone on to serve. A second signal has no effect, as the code leaves
  it in the channel. Calls on a connection whose client has not yet seen that the
  server goes away are not told from calls that arrived before. All versions that
  parseEngines gives are the same, so a version is known or not.
- `Tracer` lets the number in an ID be the one stored or the one the variable holds
  by then, as compilers may read it again; words are not torn.
- `Routing` and `Versions` follow one engine: no operation relates two names.
- `Versions` lets `sort.Slice` return any descending order, since it is not stable,
  and takes from a part the number its text starts with and its rank as text. A
  number too large for `int` has no number in the model either: Sscanf fails on it and
  it is compared as text, which can make the order cyclic. `NumbersTogether` excludes
  it, and `AlwaysSortable` needs that.
- The multiplier of a retry policy is a whole number of at least 1; `Backoff` then
  needs no `break`.
- `Register` is called with the fields it requires; the two errors for an empty name or
  address change nothing and are left out.

## Runs

Passing runs, with the reason their bounds suffice:

| Run | Shows | Bounds |
|---|---|---|
| `breaker` | `ProbeBound`, `NoWedge`, `OpenNotExtended`, `CountsBelowThresholds`, `OpenLastsTimeout` under late outcomes, panics and resets; `Recovers`: the circuit closes for good | 4 callers: two probes and two calls of earlier periods; thresholds 2, timeout 2, so each counter has a value between its ends |
| `retry` | `OneLateCall`, `ResultJustified`, `WaitBounded`, `Terminates` for all policies | see `Retry.cfg`; enough retries for the cap to act twice, backoffs large enough for jitter |
| `limits` | `ImplementsContract` of the three limiters (refinements of `RateContract`); `RefusesOnlyExcess`, with an honest Remaining, also of the quota | 2 keys for independence, batches of up to 2, a clock that outlasts two windows and a bucket's refill, a refill that is no whole number of tokens; quota limits up to the limiters' own |
| `routing` | `RoundRobinCycles`, `RoutedWasUp`, `NotFoundJustified`, `PanicsOnlyShared`; `HealthHonest`: a status says that the engine can be reached exactly when it could, and is exact unless the registry changed between the query's two reads | two calls of the shared balancer, one with a fresh and one with a weighted balancer, any two of them at a time, or one query; up to 3 endpoints, weights that include zero. The calls of the shared balancer are symmetric |
| `versions` | `Sortable`: comparing some parts as numbers and others as text is an order; `BestRelease`, `NeverOlder` | up to 3 of 7 versions in every order, any of them the default |
| `authorization` | `HigherWins`; `FirstOccurrenceSuffices`: parts in order without overlap; `ShellMatchesAccepted` | up to 3 of 5 policies, repeats included, and 3 calls (one without identity, one without roles); all patterns of up to 5 and values of up to 4 characters: a part can repeat, overlap itself and occur twice |
| `gateway` | `RateLimitShared`, `QuotaConserved`, `MetricsAccount`, `EveryRequestEnds` with panics; `DoorsAgree` over all calls and settings | 4 requests over 3 doors, three of them of one tenant (named in the metadata once), 2 tokens, quota 1, failure threshold 1, one tick; calls: two segments of which one begins with v, a tenant that is registered and one that is not, chains of up to two authenticators |
| `gateway_parts` | `BreakerImplements`: a breaker in `Gateway` is used as `CircuitBreaker` says; `LimiterImplements`: the shared limiter keeps `RateContract` for all doors together | one tenant, 4 requests to the HTTP door, whose breaker is watched, and 1 to the gRPC door; failure threshold 1, timeout 1 and one tick, so that the circuit opens, half-opens with both its probes and sees a late outcome; 3 tokens and one refill for 5 requests. The HTTP requests make one call and are symmetric |
| `deployment` | `StoppedDoorsQuiet`, `FatalJustified`, `InstancesConfiguredAlike`, `ShutdownEnds` | a call with a deadline at each door, an open-ended one at the gRPC and the Connect door, any set of ports taken, up to two of six kinds of entries in `GATEWAY_ENGINES` |

CHECK_DEADLOCK is off only where a system of finitely many requests, calls or
registrations really comes to its end.

Runs that show a disagreement between the code and what a comment or the
repository's README says (`findings` in `PROJECT.json` quotes both):

| Run | The code |
|---|---|
| `routing_panic` | indexes beyond the healthy endpoints in the shared round-robin balancer |
| `routing_duplicates` | marks only the first endpoint of an address that was registered twice |
| `tracer_ids` | makes the same ID for two requests at a time |

Smaller disagreements, visible in the definitions and without a run of their own:

- Allow does not count the probe that half-opens the circuit (`AfterAllow`), so
  MaxRequests + 1 probes run at once, where the comment at `retry.go:180` says
  MaxRequests; `ProbeBound` states the bound that holds.
- The first backoff is not capped and jitter comes after the cap, so a wait can exceed
  MaxBackoff, "the maximum retry delay" (`retry.go:18`); `WaitBounded` states the bound
  that holds.
- Without a configured balancer the HTTP door makes a new one for each request
  (`NextFresh`), so every request goes to the first healthy endpoint, where the
  repository's README calls the endpoint load-balanced.
- The weighted balancer hashes the engine name and the number of endpoints
  (`WeightedPick`), so all requests go to one endpoint until the registry changes.
- A pre-release ranks above its release (`compareVersions`), and `latest` resolves to
  it.
- `matchPattern` knows no `?`, which its comment names as a wildcard.
- `gateway.New` gives the HTTP door a quota, registry, version resolver, circuit
  breaker and metrics of its own, and main passes it only the limiter, the
  authenticator, the authorizer, the client and the logger (`Instances`), where the
  repository's README says the protocols "share one instance of every policy
  component".
- The doors differ in four cases, all in `Expressible` and `SamePolicy`: an empty
  bearer token beside an API key; a tenant named in RequestMetadata only, which is
  charged and not shown to the authorizer; a path
  `/{engine}/{capability}/{sub-resource}` whose capability begins with v, which is
  taken for a version; and the tenant resolver, which only the HTTP door has. The
  comment at `connectgateway/handler.go:10` says that they "enforce identical policy".
- `TenantHints.TenantID` is "from the authenticated identity" by its comment and gets
  the header (`TenantResolves`); what the resolver returns is dropped.
- `JWTConfig.ClockSkew` has a default and is never used.
- The engine client's own timeout is the default timeout, so a longer X-Timeout has
  no effect; and a client that gives a short one, or hangs up, counts as a failure of
  the engine at the breaker (`ForwardFails`).
- GetHealth's overall status is that of the last engine that is not healthy, so a
  degraded engine hides an unhealthy one before it.
- The two loops of main differ: an engine whose endpoint is refused is still known to
  the HTTP door's version resolver (`InstancesConfiguredAlike`).
- A request that is turned away before the breaker is not in RequestCount, whose
  comment says "total requests received"; `MetricsAccount` states what is counted.

## Fairness

- `CircuitBreaker!Fairness`: the clock runs; a call that was admitted returns, because
  both doors give it a deadline; and clients keep sending requests, since an idle
  breaker cannot close. `Reset` is not fair, as nothing calls it. `Recovers` is stated
  for calls that reach the engine after it recovered and return no error.
- `Retry!FairSpec`: the loop goes on; the function returns and timers fire.
- `Deployment!FairSpec`: main runs on, the timer fires, and a call with a deadline is
  answered. Nothing is assumed of open-ended calls, and not even that the goroutines
  of the servers are scheduled; `ShutdownEnds` assumes, as part of the statement, that
  open-ended gRPC calls end, because GracefulStop waits for them.
- `Gateway!FairSpec`: weak fairness of every request's own steps, which the Go
  scheduler gives to a goroutine and the deadline to the forwarded call.

## Proofs

TLAPS checks eight modules of theorems, for all values of the constants that satisfy
the named assumptions. Every safety property of `CircuitBreaker`, `Retry`,
`MCLimits`, `Routing`, `Versions`, `MCAuthorization`, `Gateway`, `GatewayParts` and
`Deployment` that a passing run checks is a theorem; the inductive invariants were checked by TLC on the run's
instance before they were proved.

Loops of the code over lists (the filter of `GetHealthyEndpoints`, the pruning of a
log, the sum of the weights, the backoff of an attempt, `parseEngines`, `splitVersion`,
the sort of `Authorize`, the split and the search of `matchPattern`) are recursive functions on
`0 .. Len(list)`. What they compute is proved by one pattern: a lemma says that the
recursion has a solution (`LoopExists`, `SweepExists`, ...), and the loop's invariant
holds of it after every turn by `NatSetInduction`, induction stated for a set of
numbers and derived from `WFMin` of the library.

`CircuitBreakerProofs` (`BreakerAssumption`: positive thresholds, other fields not
negative; `CallersAssumption`: finitely many callers)
proves `TypeCorrect`, `ProbesBounded`, `NeverWedged`, `CountsBounded`, `OpenEnds` and
`OpenHolds`. None of these is inductive. The invariant `IInv` adds to the types:
`HalfOpenInv`, that in half-open every admission beyond the first is in `requests` and
each is accounted for as a running probe, a recorded success or a lost outcome, so a
full breaker with no running probe and no loss would have had enough successes to
close; `ProbesInv`, that probes exist only in half-open, are running, and that their
number is what the counters say; `OpenInv`, that `openAge` and the history `openTicks`
agree while open; and `ClosedInv`, that a closed circuit has fewer failures than the
threshold. `NeverWedged`, and no other theorem, also uses `SlotsAssumption`,
`SuccessThreshold <= MaxRequests + 1`: with fewer slots a half-open circuit could not
collect its successes and would refuse requests for ever. The constructor's values
satisfy it with nothing to spare.

`GatewayProofs` (`GatewayAssumption`: finitely many requests, making any calls at any
of the doors, any configuration, any quotas; `BreakerAssumption` for the types) proves
`TypeCorrect`, `LimiterShared` (`RateLimitShared`), `QuotaCharged` (`QuotaConserved`)
and `MetricsExact` (`MetricsAccount`), however the requests interleave and wherever
they panic. The three conservation laws are inductive together with `CoreInv`, which
says what the stage of a request implies: a request under way passed the door, so it
has a key; its answer is undecided before the last stage, and one that
`RecordRequest` counts when it gets there. Each book then changes in one action only
(`GrantIInv`, `ChargeIInv`, `RecordIInv`; the clock in `TickIInv`), together with the
set of requests that it counts, by one; all other steps are instances of `QuietIInv`,
which leaves the three sets alone. `DoorsTreatAlike` (`DoorsAgree`) needs no invariant
and no assumption on the segments, tenants and hosts: `SameTarget` computes what
`FromHTTP` reads from a path that was joined of any segments, and `PolicyHolds`
compares the outcomes of the doors.

The same module proves that the parts of the gateway implement their own
specifications, for whichever instance `Watched` is. `BreakerImplementation`
(`BreakerImplements`): the refinement mapping makes a request that is being forwarded
a caller inside Execute (`Calls`), and `StepKinds` sorts the steps of a request into
those that take a token, enter an Execute, leave one, and all others. `EnteringStarts`
and `LeavingReturns` find the caller's action for the second and third kind, where
`ProbesWhileHalfOpen` says that there are probes only in half-open; the other
instance's requests leave the breaker alone (`WatchedRests`). `LimiterImplementation`
(`LimiterImplements`) rests on `WithinBucket`: for every key and every earlier tick,
what was granted since plus the tokens left is within a full bucket and the refill
since. `BreakerSafeAtDoors` then carries three safety theorems of
`CircuitBreakerProofs` over to the doors, and a fourth that is stronger there, since
nothing in the gateway calls Reset: an open circuit ends by its timeout only
(`OpenHeld`). It uses `SlotsAssumption` for the same reason as `NeverWedged`. The
histories of `GatewayParts` are determined by the step and have a value after every
step, so they exclude no behaviour of `Gateway`; that they do not is visible in
`HistoriesFollow` and is no theorem, as ENABLED is out of TLAPS's reach.

`LimitsProofs` (`LimitersAssumption`: a limit that may be zero, a window of at least
one tick, a token of at least one unit, any rate; nothing for the quota) proves
`TypeCorrect`, `RefusalsJustified` (`RefusesOnlyExcess`), and that all three limiters
implement `RateContract`, `Implementation` (`ImplementsContract`). `MCLimits` chooses
one of four systems in the initial state, so the invariant is one of each.
`FixedInv`: every stored window, expired or not, has counted what was granted since it
began, nothing was granted after its end, and before it each window that fits took at
most `Limit` (`Runs`). `SlidingInv`: the log is ascending, and from any tick of the
window that ends now its entries are as many as were granted since (`Covers`); and
every earlier interval kept to its budget (`Past`), which is what a new grant needs
for the intervals that began before the window. `BucketInv`: the `Ledger`, that for
every key and every earlier tick, what was granted since then plus what the bucket
holds, refilled to the present, is at most a full bucket plus the refill of the time
since (a grant takes from the second term what it adds to the first); and, for the
refusals, the other direction, `Tight`: for every key there is a tick, the last at which
the bucket was full, for which that bound is reached. `QuotaInv`: the map, whose absent
entries read as zero, agrees with the history of what was charged (`Books`).

`RetryProofs` (`RetryAssumption`: positive backoffs, whole multipliers of at least one)
proves `TypeCorrect`, `CancellationPrompt` (`OneLateCall`), `ReturnsJustified`
(`ResultJustified`) and `WaitsBounded` (`WaitBounded`). The invariant adds
`CallsMatchAttempts`, one call per attempt and a wait only where another attempt is
left, and `LateOnce`, that after a late call no other is under way.

`RoutingProofs` (`RoutingAssumption`) proves `TypeCorrect`, `RefusalsJustified`
(`NotFoundJustified`), `OthersNeverPanic` (`PanicsOnlyShared`) and `QueriesHonest`
(`HealthHonest`) from `IInv`, which says what a call holds at each of its steps
(`CallShape`, `FreshSnapshots`) and that the histories have noted what was up and when
nothing was (`UpReachable`, `AbsenceNoted`). `RoundRobinFair` (`RoundRobinCycles`) and
`RoutesToUp` (`RoutedWasUp`) have the hypothesis `~Duplicates`, that no address is
registered while it is registered already: the run `routing_duplicates` shows that the
code does not follow reports about such an address. Their invariant
`SoleInv` adds that an address has one endpoint (`SoleEndpoints`), that a snapshot holds
only addresses that were up during the call (`SnapshotsWereUp`), and `Rounds`, that the
latest selections lie behind the counter in the order of the healthy endpoints. The
assumption says that addresses are no status or error and that a call uses one of the
balancers.

`VersionsProofs` (`VersionsAssumption`: the parts have an order as text, some of them a
number; any versions, constraints and default) proves `BestReleaseWins`
(`BestRelease`), `NoAnswerOlder` (`NeverOlder`) and `AlwaysSortable` (`Sortable`).
`SplitTyped` and `SplitRelease` say what `splitVersion` makes of a version and of a
release, `ComparedBy` and `ComparesOpposite` what `compareVersions` finds at the first
parts that differ, `LaterIsAbove` that releases compare by major, minor and patch. The
invariant is that every answer was registered and satisfies its constraint;
`FirstMatchBest` and `ResolvesBest` show that the first match of a sorted list is not
below any other, in whichever order `sort.Slice` leaves the equal ones. The first two
theorems need no more of the order: they are about what Resolve answers from a list
that is sorted. That there is one is the third: `CompareTransitive` has the hypothesis
`NumbersTogether`, that a part without a number is, as text, above all the parts with
one or below all of them. Parts begin with no blank and numbers fit an `int`, so the
text of one with a number begins with a digit and that of any other does not.
`SomeOrder` then builds a sorted list by inserting one version after another
(`OneMore`). The run `versions` assumes the hypothesis, so TLC evaluates it.

`AuthorizationProofs` (`AuthorizationAssumption`: priorities are integers, effects
allow, deny or another) proves `HighestPriorityDecides` (`HigherWins`), and for
patterns and values of any length over any characters, the star included,
`FirstOccurrence` (`FirstOccurrenceSuffices`) and `ShellMatches`
(`ShellMatchesAccepted`). `ForemostStep` and `SearchExact` show that after each part the
index is the end of the layout that ends first, or that there is no layout;
`ShellCovers`, that wherever a shell gets with a prefix of the pattern, the parts of that
prefix are laid out before it, up to it if a part is still under way. `ExchangeStep`,
`PassRanks` and `SortedRanks` are the proof of the sort: after pass i the policies up
to i rank no lower than any behind them, and none is lost. `Decides` takes the first hit
of the sorted list. The invariant of the specification adds that a call's copy has
every policy there was when the call was made (`CopyComplete`) and that the answer is
the decision on the copy (`AnswerDecided`). What a pattern matches plays no part in it.

`DeploymentProofs` proves `TypeCorrect`, `DoorsStayQuiet` (`StoppedDoorsQuiet`),
`FatalOnlyAtStart` (`FatalJustified`) and `ConfiguredAlike`
(`InstancesConfiguredAlike`) for any calls and any configuration. Of
`DeploymentAssumption` only the last uses a part, that `GATEWAY_ENGINES` is a finite
list. The invariant adds `ProgressInv`, that what main has
done shows in the servers: none is past its start before the go statements, and those
main is past were told to stop, unless the HTTP server was missed; and `CutInv`, that
calls are cut only by the end of the process. `ConfiguredAlike` follows from what
`Boot` computes: `ParsedRecords` and `RegisteredNames` say what the loops over the
configuration keep.

Only model-checked is liveness (`Recovers`, `Terminates`, `EveryRequestEnds`,
`ShutdownEnds`), which is outside TLAPS's reach. The three findings are
counterexamples of TLC.

## Not modelled

- JWT validation, HTTP and gRPC transport, signals: libraries, seen through their
  outcomes.
- Writing of responses, JSON envelopes, translation of status codes
  (`grpcserver/envelope.go`, `translateError`): stateless formatting on which no
  decision depends. The same holds of the logger and of telemetry's `ftoa` and
  `itoa`; `ftoa` never returns for a float that is not whole, which any test that
  logs one shows.
- The overall status that GetHealth combines of several engines: `Routing` follows one.
- Latencies and the counters per engine of `Metrics`, which follow the totals under
  the same lock; `RecordTimeout`, which nothing calls.
- The generator of the jitter (`randomState`, unprotected): `Retry` allows any value.
- The concurrent map writes of `RegisterVersion`, `AddKey` and `TenantRegistry`: main
  does all of them before it serves.
- Growth without bound of the limiters' maps and the tracer's spans: nothing is ever
  deleted, so there is no bound to state.
- `routing.Resolver`, `PermissionMap` and `GRPCConverter`, which the gateway does not
  use, and the example.

## Plan

1. Done: breaker, retry, limiters with their contract, quota, routing with the health
   queries, versions, authorization, admission and the composed gateway with panics,
   tracer, deployment.
2. Proved: every safety property of the breaker, retry, the limiters with their
   contract, the quota, routing, the version resolver, the composed gateway and the
   deployment, of the authorizer and of `matchPattern`; and that the gateway's use of
   breaker and limiter implements their own specifications.
3. Left: `routing.Resolver`, should a front door come to use it.

# Verification of the fraud-signals scoring service

This directory holds a TLA+ model of the service in `../src`: the circuit
breakers around its vendors, the two-phase scoring of one request, the incident
demo that runs the old design beside the new one, the two edges a request
arrives over, the start and shutdown of the server, and the asynchronous
pipeline that turns decisions into immutable audit records. TLC checks the
models on small instances; TLAPS proves every safety property they have there
for all values of the constants.

To repeat a check: `tlc -config <cfg> <module>` for each run listed below, and
`tlapm` on `GuardedProviderProofs.tla`, `AuditPipelineProofs.tla`,
`GracefulShutdownProofs.tla`, `IncidentProofs.tla`, `DecisionProofs.tla`,
`ScoreRequestProofs.tla` and `EdgeProofs.tla` for the proofs.
`PROJECT.json` maps every definition to the source lines it models, names the
mutation of the model that breaks each property, and lists the hazards the
properties are for.

## 1. The system

A request for a score arrives over HTTP (`internal/httpapi`) or gRPC
(`internal/grpcapi`), passes request-id, logging, recovery and authentication
middleware, and reaches `service.ScoringService.Score`. The service runs the
two-phase scorer: Stage A calls the independent vendors concurrently, Stage B
calls the credit bureau with what Stage A returned, and `decide` turns the
reports into APPROVE, DECLINE or MANUAL_REVIEW. Every vendor is wrapped by
`providers.Guard` in a timeout and a circuit breaker of its own. The service
then publishes a `ScoringEvent` to SQS and answers the caller. A worker process
or Lambda instances consume the queue: they write the decision to DynamoDB by a
conditional put, then per-vendor records, then pass the case to the review
sink and the retraining sink, and finally delete the message.

| Component (source) | State it keeps | Operations | Interacts with | What is hard | What makes it correct |
|---|---|---|---|---|---|
| Guarded provider (`providers/guarded.go`) | its breaker's state, counts and generation; one timer per call | `Fetch`: admit or fail fast, call with a budget, take the result into account | called by many requests at once; calls the vendor | results that arrive after the state changed; two timers and the caller's cancellation; a limited pool of trials | trials bounded and never used up; closes only on a trial; open means no call; a healthy vendor is not tripped, a sick one is shed, a recovered one is used again |
| Simulated vendors (`providers/simulated.go`) | none | `Fetch`, `deriveScore` | called by the guard | work racing the context | honours its context; scores in 0..100 |
| Two-phase scorer (`scorer/scorer.go`, `pipeline.go`) | a goroutine per vendor, a buffered channel, three nested contexts | fan-out, fan-in, `callDependent`, `decide` | vendors, the observer of the service | deadlines racing results; goroutines that outlive the request | every resolution counted once; no goroutine leaks; always answers; enough signals for an automatic decision |
| Scoring service (`service/scoring.go`) | the slice of evidence and its mutex | `Score` | scorer, publisher | the slice is written by goroutines that outlive Stage A | the event carries the evidence of the decision |
| Events and queue (`events/`, SQS) | messages, receive counts, dead letters | `Publish`, receive, delete, visibility timeout, redrive | service, consumers | at-least-once delivery | every message is settled |
| Consumer (`consumer/`, `cmd/worker`, `cmd/consumer`) | batch in progress, the sinks' sets of ids seen | `ProcessBatch`, `Process`, `writeAudit`, sinks, deletion | queue, store | duplicates, crashes between steps, partial failures | nothing is deleted before all its work is done |
| Audit store (`audit/dynamodb.go`) | items by key | conditional puts | consumers | lost answers, competing writers | write-once; evidence belongs to the decision recorded |
| Naive scorer and demo (`scorer/naive.go`, `buildDemo`) | as the scorer | `Score` | raw vendors; the guarded scorer beside it | a silent failure stalls the fan-in; budgets, breakers and stages decide together when an answer comes | is the incident's *before*; the guarded scorer is never slower, loses no signal, blames only who is sick |
| Start and shutdown (`cmd/server/main.go`, `httpapi/health.go`) | readiness, listeners, drain timer | start, `gracefulShutdown` | load balancer, in-flight requests | readiness, drain and forced close in the right order | no request refused or cut off |
| Edges (`httpapi/`, `grpcapi/`) | none | the two middleware chains, validation | service | two transports that must agree | same request, same treatment |
| Authentication (`auth/`) | none | `Validate`, `BearerToken` | edges | | accepts only valid tokens |
| Metrics (`metrics/`) | counters, or none (EMF lines) | `ObserveProvider` | called by the guard; read by the per-vendor alarm | what is measured is what the guard lets through | a sick vendor raises its alarm |
| Configuration, AWS clients | none | read once at start | | values that must fit each other | |

The mechanisms that are hard to test, each at its line, are the `hazards` of
`PROJECT.json`.

## 2. The modules

| Module | Models | Composes |
|---|---|---|
| `CircuitBreaker` | the breaker of gobreaker with `Guard`'s settings, as functions of a record | |
| `GuardedProvider` | one vendor behind `providers.Guard`, called concurrently | `CircuitBreaker` |
| `GuardedProviderProofs` | its proofs | `GuardedProvider` |
| `Decision` | `deriveScore`, `clamp` and `decide` as operators | |
| `DecisionProofs` | what `decide` does with any finite set of reports | `Decision` |
| `ScoreRequest` | one request through the service and the scorer | `Decision` |
| `ScoreContract` | abstract: what a request promises its caller | refined by `ScoreRequest` |
| `ScoreRequestProofs` | its proofs | `ScoreRequest`, `DecisionProofs` |
| `Incident` | the naive and the guarded design scoring the same applications, with a breaker per vendor, metrics, and time | `CircuitBreaker` |
| `IncidentProofs` | its proofs | `Incident` |
| `AuditPipeline` | queue, consumers, store and sinks | |
| `DecisionLedger` | abstract: what the audit trail promises | refined by `AuditPipeline` |
| `AuditPipelineProofs` | its proofs | `AuditPipeline` |
| `GracefulShutdown` | a server process from start to exit, and the load balancer in front of it | |
| `ServerContract` | abstract: what a server process promises those who call it | refined by `GracefulShutdown` |
| `GracefulShutdownProofs` | its proofs | `GracefulShutdown` |
| `Edge` | one call through the HTTP and the gRPC chain, with authentication | |
| `EdgeProofs` | its proofs | `Edge` |
| `MC*` | instances for TLC | |

### CircuitBreaker, GuardedProvider

In `GuardedProvider`, `cb` is the breaker; `pc`, `cctx` and `err` follow each concurrent call of
`Fetch` (`guarded.go:103-119`); `sick` is the vendor's health. `FailFast` is a
call that `Execute` refuses, `CallVendor` one it admits, `BudgetExpires` and
`CallerEnds` end the child context made at line 112, `VendorAnswers` and
`ContextEnds` are the two outcomes of the vendor's `select`, and `Settle` is the
end of `Execute`, which takes the result into account.

The breaker's source is not in the repository; its behaviour is modelled as
`Guard` configures and uses it. gobreaker numbers generations to ignore the
result of a call admitted before the last change of state; the model keeps
instead the set `live` of calls admitted in the current generation, which tells
the same two cases apart and is finite. An open breaker becomes half-open only
when it is next consulted after its timeout (`CurrentState`), as in gobreaker.
The counts that a closed breaker never reads are not kept. The order "cancelled
counts as success, any other error as failure" is `IsSuccessful`, `guarded.go:72-77`.

`CallerCuts` says how a caller may end a call: by going away
(`context.Canceled`) or by a deadline (`DeadlineExceeded`) of its own, such as
a gRPC client's, or what is left of the outer budget when the bureau is called.

### Decision, ScoreRequest, ScoreContract

`Decision` holds the arithmetic on integers: quotients are compared by
cross-multiplication, so the thresholds are exact; the mean in `deriveScore`
is rounded down. The sums are the community modules' `SumFunction`, a fold.

`ScoreRequest` has one process for the request (`pc`) and one per independent
vendor (`g`), which goes on after the request gave up on it. `results` is the
channel, `done` the set of contexts that have ended (ending an outer one ends
the inner ones), `providers` the slice of evidence, and `ev` the event. Each
wait of the code is a step: a vendor's `Fetch`, taking `mu`, the append, the
send, each iteration of the fan-in. Both branches of the `select`
(`scorer.go:118-127`) are enabled when both are ready. Reading the slice at
`scoring.go:94` happens without the mutex: it sees the records of the vendors
whose result was received (their append happened before their send) and may or
may not see others; while a goroutine is inside the append the header may be
torn.

`ScoreContract` is the promise: one reply, from vendors that answered, never
automatic with fewer than `MinSignals`, never changed afterwards.

`NeverMoreLenient` and `UnanimityDecides` judge the decision of a request by
the vendors that contributed to it: had one of them thought worse of the
applicant, the decision would not have been more lenient; when all agree beyond
a threshold, the decision follows.

### Incident

The two demo endpoints (`buildDemo`, `main.go:205-218`) answer the same
application from the same vendors, once by the naive scorer over raw vendors,
once by the production scorer over `GuardSet`. `call[d][v]` is the `Fetch` of
vendor `v` by design `d`: not begun, in progress, or its error; `at`, `since`
and `heard` are where a design's `Score` is, when its present stage began, and
what its fan-in has taken from the channel. `cb`, `cooldown` and `observed` are
each guarded vendor's breaker, its open timeout, and the last call of the
recorder. `failures` and `quiet` are history variables: they only remember what
`ShedsLoad` is about.

`Submit` is the start of both `Score`s with the fan-out of Stage A;
`VendorAnswers` and `TimesOut` the end of a `Fetch`, by the vendor's timer or by
the context (`simulated.go:64-69`), with all that `Fetch` does afterwards (the
breaker takes the result into account, the recorder is told); `Receive` and
`StopWaiting` the branches of the fan-in's `select`, and `CallDependent`
Stage B. The designs differ in three places only: in `Sent`, since the naive
goroutine of a failed vendor sends nothing (`naive.go:66-70`); in `Deadline`,
since the guard bounds each call once more (`guarded.go:112`); and in
`Fetching`, since a breaker may turn a call away (`guarded.go:109`). The
decision itself is the same function of the signals in both (`pipeline.go:40-41`);
`Signals` is what it is made from.

Computation takes no time and nothing due is passed over (`Due`, `Tick`), so a
deadline that falls on the same moment as an answer may come before or after
it. Goroutines, channels and late results are in `ScoreRequest`, concurrent
calls of one vendor in `GuardedProvider`; here applications come one after the
other, and what is new is how the stages, the deadlines and the breakers of all
vendors add up.

### AuditPipeline, DecisionLedger

`status` and `receives` are the queue; `step`, `todo`, `current`, `unwritten`
and `succeeded` are a consumer inside `ProcessBatch`; `reviewed` and `emitted`
its sinks' `seen` maps; `ledger` and `evidence` are DynamoDB; `reviews` and
`trainings` count the lines the sinks logged. Each call to the store or to a
sink is a step. A put may fail before or after it took effect, and the client
library's own retry may find the row its first attempt wrote. `Delete` covers
the worker's `DeleteMessageBatch`, whose errors are logged only, and Lambda's
partial batch response: any subset of the deletions may take. `Crash` is the
death of the process at any point; its memory is lost, its messages become
visible again by `VisibilityTimeout`, which also strikes consumers still at work.

`DecisionLedger` is the promise: a request id gets at most one record, of a
decision made for it, never changed, and a message is acknowledged only when
there is one.

### GracefulShutdown

`main` is where `main` and `gracefulShutdown` are; `listener` and `drain` are,
for each transport, the goroutine that serves (`main.go:88-105`) and the one
that drains (`main.go:143-163`). `TurnUnready` is the `select` with the first
line of `gracefulShutdown`, `WakeUp` the end of the sleep, `StopAccepting` the
start of `Shutdown` or `GracefulStop`, `Drained` and `ForceClose` their two ends.
A forced close does not wait for handlers, so what it cuts is `cut`, not
answered. `http.Server`, `grpc.Server` and the load balancer are external: the
first two stop accepting and then wait; the last one calls `/readyz` every
`Interval` and changes its mind after so many contrary answers in a row
(`deploy/terraform/modules/platform/main.tf:124-131`). The orchestrator's own
deregistration of a stopping task is not modelled: the code relies on the
health check. Time is discrete; `Tick` may not pass the end of the sleep or the
moment of a check, while goroutines take as long as they like.

`ServerContract` is the promise to callers: each transport has a door that opens
and shuts at most once; who comes through it is answered, unless the door is
shut and the time to drain has run out; nobody is left inside.

### Edge

The same `call` goes through both chains, layer by layer (`depth`), `down` to
the handler and `up`, or up in `panic`, when only `RecoverMW` runs code. The
two chains are written separately in the code, and separately here, and the
property `Alike` compares them. A token is the record of what `HS256.Validate` looks
at, an application the set of its required fields that are not empty, and the
call carries the decision that scoring it yields, or that scoring panics. An
absent id or subject is `Empty`.

## 3. What is checked

| Run | Configuration | Shows |
|---|---|---|
| `breaker` | `MCBreaker.cfg` | 2 concurrent calls, trip after 2, 2 trials, both ways for callers to end a call. Safety: `TypeOK`, `TrialsBounded`, `NotWedged`, `ClosesOnTrial`, `OpenShieldsVendor`. Liveness: `FetchReturns`, `HealthyVendorNeverTripped` (as long as no caller sets a deadline), `Recovers`, `SickVendorShed` (as long as no caller cancels) |
| `breaker_caller_deadline` | `MCBreakerCallerDeadline.cfg` | **violated**: `CallersNeverTrip` |
| `request` | `MCRequest.cfg` | the default vendors, five opinions at, between and beyond the thresholds and off the scale, one vendor that never heeds its context: `TypeOK`, `CompletionExact`, `WaitsForSomeone`, `EvidenceCoversDecision`, `UnanimityDecides`, `NeverMoreLenient`, `ImplementsContract`, `Answers`, `NoLeak` |
| `request_race` | `MCRequestRace.cfg` | **violated**: `EvidenceIsRaceFree` (without a bureau) |
| `pipeline` | `MCPipeline.cfg` | 2 decisions under one request id, either of them possibly not parsable, 2 consumers, batches of one or two, 2 deliveries each: `TypeOK`, `EvidenceIsOfTheDecision`, `DoneBeforeDelete`, `ImplementsLedger`, `Settles` |
| `pipeline_evidence` | `MCPipelineEvidence.cfg` | **violated**: `EvidenceComplete` |
| `pipeline_overwritten` | `MCPipelineOverwritten.cfg` | **violated**: `EveryDecisionRecorded` |
| `shutdown` | `MCShutdown.cfg` | 2 requests over HTTP and 1 over gRPC, checks every 2 ticks, 2 failures to deregister, a sleep of 5 and a timeout of 2: `TypeOK`, `NothingRefused`, `InFlightSurvives`, `ImplementsContract`, `Exits`, `StartsServing` |
| `shutdown_deployed` | `MCShutdownDeployed.cfg` | **violated**: `DeregisteredBeforeClosing`, with the deployed times in seconds |
| `incident` | `MCIncident.cfg` | the default vendors, any of which may turn slow, fail and recover between applications; the default budgets; trip after 2, an open timeout of 10 ticks. Safety: `TypeOK`, `NoSignalLost`, `OnlySickBlamed`, `NeverSlower`, `NaivePinned`, `ShedsLoad`. Liveness: `Heals` |
| `incident_alarm` | `MCIncidentAlarm.cfg` | **violated**: `SickVendorPages` |
| `edge` | `MCEdge.cfg` | a good token, none, and four faulty ones; every body and application; every outcome: `TypeOK`, `AccessLogged`, `Alike`, `ScoredAsCaller` |

A violated property states what a comment or a document of the repository says;
the finding in `PROJECT.json` quotes it. In short:

1. A deadline set by the caller counts against the vendor (`guarded.go:76`).
2. The slice of evidence is read without its mutex (`scoring.go:94`).
3. Per-vendor records that a failure left unwritten are never written
   (`consumer.go:77`).
4. A second decision under a reused request id leaves no record (`consumer.go:77`).
5. The drain delay of 2 s ends long before three health checks 10 s apart can
   fail (`main.go:135`).
6. The per-vendor latency alarm is set to 150 ms, and the latency it reads is
   that of calls the guard cuts off after 120 ms: it never fires
   (`variables.tf:113`). The model asks less of the alarm than CloudWatch does
   (one observation above the threshold instead of the 99th percentile in three
   periods), and still it stays silent.

Four more behaviours that the models contain and no property forbids, because the
code does not prevent them: a cancelled call counts as a *success*, so it resets
the run of failures and closes a half-open breaker (`guarded.go:76`); a report
that arrived before the deadline can lose the `select` against the deadline
(`scorer.go:118`); the review sink's deduplication does not survive its process,
so a case may be reviewed twice (`sinks.go:29`); and a panic in a gRPC handler,
which no interceptor recovers, ends the process (`interceptors.go:21-27`).

### Bounds

- Breaker: two concurrent calls are enough for a trial and a late result at
  once, for two trials in either order, and for one call to return while
  another is refused. A limit of 2 distinguishes "one below" from "at the
  limit" for both counters. The safety properties are proved for every number of
  calls and every setting; liveness is checked on this instance only.
- Request: the default configuration has two independent vendors and the
  bureau. Opinions are chosen below the scale, at both thresholds, between them
  and above the scale, so that clamping is exercised and blending two of them
  crosses each threshold. Safety is proved for any vendors, opinions and weights.
- Pipeline: two consumers and two deliveries are the smallest instance in which
  a message is processed twice at once, twice in turn, or dead-lettered after a
  retry. Which messages do not parse is chosen at the start. Receive counts are bounded by the redrive policy itself.
- Incident: the latencies (60, 55, 40 ms) and budgets (180, 120, 120 ms) are
  those of `DefaultProviders` and `config.Load` in ticks of 20 ms, latencies
  rounded up; a slow vendor takes longer than any budget, as in
  `DemoSickProviders`. An open timeout of 10 ticks is longer than an application
  may take (9), so that applications come while a breaker is open and when it
  has just become half-open; the real one (30 s) only makes the same wait
  longer. Tripping after 2 failures instead of 5 shortens the way to the same
  states. Safety is proved for all of these (section 4).
- Shutdown: a delay of 5 is the shortest that outlasts two checks 2 apart; two
  HTTP requests let one be in flight while the other arrives late. Safety is
  proved for all times. The violated run uses the times of the deployment.
- Edge: one call at a time, since calls share nothing there; each token has at
  most one fault, which the order of the checks makes enough. Safety is proved
  for all ids and tokens.

### Fairness

- Breaker: timers fire, a vendor whose context ended returns (the contract of
  `ports.Provider`, `provider.go:21`), a healthy vendor answers, a returned
  call is settled. The budget's timer needs strong fairness because the model
  allows it only while the vendor is sick. No fairness makes callers call or a
  sick vendor answer; `Recovers` assumes traffic explicitly.
- Request: timers fire; goroutines that wait for nothing run; a vendor that is
  not deaf returns once its context ended; `Publish` returns. Nothing makes a
  vendor answer in time.
- Pipeline: SQS keeps delivering a visible message to consumers that keep
  polling (strong fairness, since consumers are busy in between); visibility
  timeouts pass; a live consumer works on. Nothing is assumed about crashes,
  store errors or deletions: `Settles` holds because the redrive policy bounds
  the deliveries.
- Incident: what is due happens and time passes. That applications keep coming
  is a premise of `Heals` and `SickVendorPages`, stated in them (`Traffic`), and
  so is that the vendors stay well, or one of them slow.
- Shutdown: goroutines run, time passes, checks are made. Nothing makes a
  handler answer, so `Exits` covers handlers that never return.

## 4. What is proved

Every safety property of a passing run, and each of the three refinements, is a
theorem. So is, for four of the promises that section 3 shows violated, what
would make them true; those theorems are marked *saved* below.

For any number of calls and any breaker settings (`CallsAssumption`,
`TripAssumption`, `TrialsAssumption`, `CutsAssumption`), `GuardedProviderProofs`
proves `TypeCorrect`, `TrialsAreBounded`, `NeverWedged`, `OpenShields` and
`ClosedByTrials`. The inductive invariant `IInv` adds to the types that a call
in `live` is in progress, and that in a half-open breaker requests admitted are
exactly the successes credited plus the trials alive, never above the limit, with
successes below it. `NotWedged` alone is not inductive: that some trial is still
alive when the requests are used up follows only from that equation. The two
action properties follow from the invariant and a case analysis of each action.
`HealthyIsNeverTripped` is a safety property in temporal form, of behaviours in
which the vendor stays well: `NothingCounts`, that the breaker is closed and no
result in progress will count as a failure, is kept by every step of such a
behaviour. *Saved*: `CallersThatOnlyLeaveNeverTrip`, the promise of
`guarded.go:68-71` when `CallerCuts` has no deadline.

For any messages, request ids, consumers and redrive limit
(`BodyAssumption`, `RedriveAssumption`), `AuditPipelineProofs` proves
`TypeCorrect`, `DeletedOnlyWhenDone`, `EvidenceMatches` and `Refinement`, that
the pipeline implements `DecisionLedger`. `TInv` adds `DeliveriesLeft`: a
visible message has deliveries left, without which the receive count could
pass its limit. `IInv` adds `Remembers(c)`: what a consumer's position and its
sets `seen` and `succeeded` say of the store and of the sinks is true. Its
preservation splits into a consumer's own steps (`OwnStepRemembers`), the
others' steps (`OthersUntouched`) and the fact that records and log lines are
never taken back (`StoresGrow`), which keeps everyone's memory true whatever
others do. In the refinement, a conditional put that finds its key free is
`Record`, a deletion is `Acknowledge`, and every other step, crashes included,
changes nothing visible. *Saved*: `DistinctRequestsAreRecorded`, every decision
processed is in the ledger when no request id is used for two decisions.

For any requests, times and thresholds (`ViaAssumption`, `TimesAssumption`),
`GracefulShutdownProofs` proves `TypeCorrect`, `AcceptedSurvives` and, when the
drain delay exceeds `UnhealthyThreshold` times `Interval`, `NothingIsRefused`.
`TInv` bounds the errors in the channel by the listeners that failed. `Phases`
ties each listener and drain to what `main` has done. `Deregisters` is the
argument about time: while the process sleeps and is still routed to, the
checks that have yet to fail end before the sleep does,
`UnhealthyThreshold * Interval + checkLeft < drainLeft + (streak + 1) * Interval`.
A tick takes one from both sides, a failed check adds one `Interval` to both,
and at the end of the sleep it contradicts `streak < UnhealthyThreshold`. The
hypothesis is what the deployed values lack (`shutdown_deployed`). `KeepsContract`
is the refinement of `ServerContract`: the doors are the listeners, time has run
out when the shutdown's context is done; `Phases` supplies what the abstract
guards ask, that a forced close comes after the timeout and behind a shut
door, and that nobody is in flight when the process exits. *Saved*:
`DeregistersInTime`, deregistration before closing, under the same hypothesis.

For any vendors, latencies, budgets and breaker settings (`VendorsAssumption`,
`TimesAssumption`, and the breaker's), `IncidentProofs` proves:

- `TypeCorrect`, with the two bounds in `TypeOK`: answered within the outer
  budget, no latency recorded beyond the guard's. Its invariant adds `Timely`
  (the clock has not passed anything due) and `Staged` (Stage B is the bureau's
  call). `AlarmSilent` is a corollary: a threshold not below the guard's
  budget is never exceeded.
- `OnlySickAreBlamed`, if the budgets suffice (`BudgetsSuffice`: Stage A is
  longer than any independent vendor's latency, and what it leaves of the outer
  budget, and the guard's own, than the bureau's). The configuration does not
  check this; the default values satisfy it.
- `NaiveIsPinned`, if a slow vendor is slower than Stage A's deadline.
- `GuardedNeverSlower`, without any hypothesis. `RaceInv` compares the two
  designs call by call: an answer the naive one has got is due to the guarded
  one too. So while the naive design has left a stage that the guarded one is
  still in, something is due, and time does not pass before the guarded one
  leaves it (`BehindIsDue`, `BehindInStageBIsDue`).
- `LoadIsShed`. `TripInv` ties the breaker to the history of its vendor: a
  closed breaker has counted exactly the failures in a row, and while an open
  one is cooling, what is left of the open timeout and the time since the last
  failure add up to the open timeout.
- `NoSignalIsLost`, if the budgets suffice and a slow vendor is slower than the
  whole request (`SlowIsTooSlow`: otherwise the naive design may wait for a
  slow answer that the guarded one has given up). `SignalInv` says which calls
  an application has made (`Asked`), that the fan-in gets every answer given
  before its deadline (`Heard`), and, call by call, that an answer the naive
  design has is one the guarded design has or is due, unless the vendor's
  breaker turned its call away (`SignalOf`).

For any finite set of reports, `DecisionProofs` proves that vendors who agree
beyond a threshold are followed (`AgreementDecides`) and that worse scores never
bring a more lenient decision (`WorseIsNotMoreLenient`). What that takes is that
a sum does not depend on the order in which the fold meets the reports, that it
is monotonic and scales. The library's induction theorems have an operator as
parameter, which the provers cannot instantiate, so these facts are proved by
least counterexamples: a set of subsets of a finite set that is not empty has a
smallest member (`SmallestSubset`, from the well-foundedness of strict
inclusion), and one report less contradicts it.

For any finite set of vendors, any opinions, weights, confidences and thresholds
(`VendorsAssumption`, `ReportsAssumption`, `ThresholdsAssumption`,
`CoverageAssumption`), `ScoreRequestProofs` proves:

- `TypeCorrect`, `CompletionIsExact`, `NeverWaitsInVain`, `BufferIsLargeEnough`
  (a goroutine never waits for room in the channel: the reason why none leaks)
  and `EvidenceIsComplete`. `IInv` says where each goroutine's answer is
  (`Goroutines`, `Channel`) and counts: the goroutines that have exited are as
  many as the resolutions taken and those waiting in the channel (`Counted`).
  `CompletionExact` alone is not inductive, since it says nothing until the last
  resolution is taken. *Saved*: `CompletionIsRaceFree`, the slice of evidence is
  read without a race once all resolutions were taken.
- `DecisionIsMonotonic`, without any hypothesis: `Collected` says that the
  reports are those of the vendors used, the bureau's made from the others', so
  a worse opinion makes every report worse or leaves it (`deriveScore` is
  monotonic in the vendor's own opinion and in the mean), and
  `WorseIsNotMoreLenient` applies.
- `UnanimityIsFollowed`, if every vendor has weight and
  `ApproveBelow < DeclineAbove`. The code checks neither; without weight the
  score is zero, which approves (`pipeline.go:86-88`, `97-104`), and with the thresholds in
  reverse order one score is beyond both. The defaults satisfy both.
- `Refinement` of `ScoreContract`: a vendor's success is `VendorAnswers`,
  `Decide` is `Reply`, every other step changes nothing the caller sees.

For any ids and tokens (`EdgeAssumption`), `EdgeProofs` proves `TypeCorrect`,
`OneTrueLogLine`, `TransportsAgree` and `OnlyAdmittedAreScored`. What a call
deserves is a function of the call alone (`Status`, `Answer`, `ScoredAs`). The
invariant says of each transport, by the layer it is at and its direction, how
much of that has been done (`GoesDown`, `GoesUp`, `GoesUpPanicking`). That the
chains agree then follows because both end with the same function of the same
call, except where the code differs on purpose (the size of a body over HTTP, an
uncaught panic over gRPC).

Only model-checked: liveness, which needs ENABLED and fairness and is beyond the
prover: `FetchReturns`, `Recovers`, `SickVendorShed`, `Answers`, `NoLeak`,
`Settles`, `Exits`, `StartsServing` and `Heals`. The safety part of each that
the prover can reach is proved: `NeverWedged` for `Recovers`, `LoadIsShed` for
`SickVendorShed`, `BufferIsLargeEnough` and `NeverWaitsInVain` for `NoLeak` and
`Answers`.

## 5. Not modelled, and the plan

Modelled first was what loses money or evidence when it goes wrong: breakers, the
request, the audit pipeline, the shutdown; then the edges; then the composition
of stages, deadlines and breakers under time, with the naive design beside it,
and the contract of the server. The proofs followed in the same order. What is
left to prove: what would save the promise of `consumer.go:10-13`
(`EvidenceComplete`: the put of a per-vendor record must not fail), and the
bounds on liveness that are safety properties, such as the most deliveries and
steps a message can take before it is settled.

Not modelled, and why:

- Requests that share breakers and overlap in time: `GuardedProvider` has the
  overlapping calls of one vendor, `Incident` all vendors with one application
  at a time. Vendors share nothing but the deadlines of a request, so both
  together cover what one request can do to another.
- How long `Publish` keeps the caller waiting: nothing bounds it but the
  caller's own context, so there is no promise to check.
- Configuration and AWS client set-up: read once before anything runs; their
  values are the models' constants, and what the properties need of the values
  is an assumption of the theorems. That a setting which does not parse becomes
  its default without a word (`config.go:117-171`) is listed as a hazard.
- The in-memory `Collector` and the JSON of metrics, wire formats, generated
  protobuf code, Terraform apart from the queue's redrive policy, the target
  group's health check and the per-vendor alarm.
- Panics of vendors in Stage A's goroutines: no vendor of the repository panics.

------------------------------ MODULE Incident ------------------------------
(* The incident and its cure, side by side (the two demo endpoints of      *)
(* src/cmd/server/main.go, buildDemo): every application is scored at the  *)
(* same moment by the naive scorer over raw vendors                        *)
(* (src/internal/scorer/naive.go) and by the production scorer over        *)
(* vendors behind providers.Guard, with a breaker each and with metrics    *)
(* (src/internal/metrics).                                                 *)
(*                                                                         *)
(* Time is discrete.  `now` is the time since the applications were        *)
(* submitted; it does not pass a moment at which something is due, and     *)
(* computation takes no time.  When an answer and a deadline fall on the   *)
(* same moment, either may come first.                                     *)
(*                                                                         *)
(* Abstractions.  Applications come one after the other, as in the demo    *)
(* and in incident_test.go (GuardedProvider has concurrent calls of one    *)
(* vendor), and a vendor's health changes only in between, so that both    *)
(* scorers meet the same vendors.  No caller goes away.  The steps of      *)
(* goroutines and channels are in ScoreRequest; here a resolution that is  *)
(* sent is in the channel at once.                                         *)
EXTENDS CircuitBreaker

CONSTANTS
    Independent,    \* the Stage-A vendors
    Bureau,         \* the Stage-B vendor
    Latency,        \* how long each vendor takes when it is not slow
    SickLatency,    \* and how long when it is
    Budget,         \* scorer.Config.Budget
    StageABudget,   \* scorer.Config.StageABudget
    ProviderBudget, \* GuardConfig.Budget
    OpenTimeout,    \* GuardConfig.OpenTimeout
    AlarmThreshold  \* of the per-vendor latency alarm

Vendors == Independent \cup {Bureau}
Designs == {"naive", "guarded"}
Health  == {"well", "slow", "failing"}

ASSUME VendorsAssumption ==
    IsFiniteSet(Independent) /\ Independent # {} /\ Bureau \notin Independent
ASSUME TimesAssumption ==
    /\ Latency \in [Vendors -> Nat]
    /\ {SickLatency, Budget, StageABudget, ProviderBudget, AlarmThreshold} \subseteq Nat
    /\ OpenTimeout \in Nat \ {0}

VARIABLES
    now,      \* time since the applications were submitted
    at,       \* where each design's Score is
    since,    \* when each design's present stage began
    heard,    \* the vendors each Stage-A fan-in has taken from its channel
    call,     \* each design's Fetch of each vendor: in progress, or its error
    health,   \* of each vendor
    cb,       \* the breaker of each guarded vendor
    cooldown, \* what is left of its open timeout
    observed, \* the last observation the recorder got of each guarded vendor
    failures, \* history: failed calls of a vendor in a row, up to trip
    quiet     \* history: time since the last of them, up to OpenTimeout

guardVars   == <<cb, cooldown, observed>>
historyVars == <<failures, quiet>>
vars == <<now, at, since, heard, call, health, guardVars, historyVars>>

Least(a, b) == IF a <= b THEN a ELSE b

-----------------------------------------------------------------------------
(* Contexts and calls.                                                     *)

StageADeadline == Least(StageABudget, Budget)

\* Mutation: the bureau is called with the context of Stage A.
ContextDeadlineOfStageA(v) == StageADeadline

\* The deadline of the context that a design's scorer gives to a vendor.
ContextDeadline(v) == IF v = Bureau THEN Budget ELSE StageADeadline

Began(d, v) == IF v = Bureau THEN since[d] ELSE 0

\* Mutation: the guard's context is not derived from the caller's.
DeadlineDetached(d, v) ==
    IF d = "guarded" THEN Began(d, v) + ProviderBudget ELSE ContextDeadline(v)

\* The guard bounds the call once more; the sooner deadline wins.
Deadline(d, v) ==
    IF d = "guarded" THEN Least(ContextDeadline(v), Began(d, v) + ProviderBudget)
                     ELSE ContextDeadline(v)

AnswerTime(d, v) ==
    Began(d, v) + IF health[v] = "slow" THEN SickLatency ELSE Latency[v]

\* The outcome under which the recorder counts a call that ended with e.
classify(e) ==
    CASE e = "nil"                                    -> "success"
      [] e \in {"ErrOpenState", "ErrTooManyRequests"} -> "breaker_open"
      [] e = "DeadlineExceeded"                       -> "timeout"
      [] OTHER                                        -> "error"

\* What the recorder is told of a call: once, when it ends.
Observation(e, latency) == [outcome |-> classify(e), latency |-> latency]

NotObserved == [outcome |-> "none", latency |-> 0]

\* Fetch of a guarded vendor begins: its own breaker admits or rejects it.
Admitted(v) == ~Rejects(CurrentState(cb[v]))

Fetching(v) == IF Admitted(v) THEN "calling" ELSE Rejection(CurrentState(cb[v]))

Consulted(v) ==
    IF Admitted(v) THEN OnRequest(CurrentState(cb[v]), "call") ELSE CurrentState(cb[v])

ObservedAtOnce(v) ==
    IF Admitted(v) THEN NotObserved ELSE Observation(Fetching(v), 0)

-----------------------------------------------------------------------------
Init ==
    /\ now = 0
    /\ at = [d \in Designs |-> "answered"]
    /\ since = [d \in Designs |-> 0]
    /\ heard = [d \in Designs |-> {}]
    /\ call = [d \in Designs |-> [v \in Vendors |-> "none"]]
    /\ health \in [Vendors -> Health]
    /\ cb = [v \in Vendors |-> NewGeneration("closed")]
    /\ cooldown = [v \in Vendors |-> 0]
    /\ observed = [v \in Vendors |-> NotObserved]
    /\ failures = [v \in Vendors |-> 0]
    /\ quiet = [v \in Vendors |-> 0]

Idle ==
    \A d \in Designs : at[d] = "answered" /\ \A v \in Vendors : call[d][v] # "calling"

\* An application is submitted to both: Stage A fans out.
Submit ==
    /\ Idle
    /\ now' = 0
    /\ at' = [d \in Designs |-> "stageA"]
    /\ since' = [d \in Designs |-> 0]
    /\ heard' = [d \in Designs |-> {}]
    /\ call' = [d \in Designs |-> [v \in Vendors |->
                  IF v = Bureau         THEN "none"
                  ELSE IF d = "guarded" THEN Fetching(v)
                  ELSE                       "calling"]]
    /\ cb' = [v \in Vendors |-> IF v = Bureau THEN cb[v] ELSE Consulted(v)]
    /\ observed' = [v \in Vendors |-> IF v = Bureau THEN NotObserved ELSE ObservedAtOnce(v)]
    /\ UNCHANGED <<health, cooldown, historyVars>>

\* A call ends with error e; of a guarded one the breaker and the recorder
\* are told.  The bureau's is the last.
Settle(d, v, e) ==
    /\ call' = [call EXCEPT ![d][v] = e]
    /\ at' = IF v = Bureau THEN [at EXCEPT ![d] = "answered"] ELSE at
    /\ IF d = "guarded"
         THEN LET b == AfterRequest(cb[v], "call", e) IN
              /\ cb' = [cb EXCEPT ![v] = b]
              /\ cooldown' = [cooldown EXCEPT ![v] = IF b.cooling THEN OpenTimeout ELSE 0]
              /\ observed' = [observed EXCEPT ![v] = Observation(e, now - Began(d, v))]
              /\ failures' = [failures EXCEPT
                                ![v] = IF e = "nil" THEN 0 ELSE Least(@ + 1, trip)]
              /\ quiet' = [quiet EXCEPT ![v] = 0]
         ELSE UNCHANGED <<guardVars, historyVars>>
    /\ UNCHANGED <<now, since, heard, health>>

VendorAnswers(d, v) ==
    /\ call[d][v] = "calling"
    /\ now >= AnswerTime(d, v)
    /\ Settle(d, v, IF health[v] = "failing" THEN "vendorError" ELSE "nil")

TimesOut(d, v) ==
    /\ call[d][v] = "calling"
    /\ now >= Deadline(d, v)
    /\ Settle(d, v, "DeadlineExceeded")

\* Stage B: the bureau is called with what is left of the outer budget.
CallDependent(d) ==
    /\ since' = [since EXCEPT ![d] = now]
    /\ IF d = "guarded"
         THEN /\ at' = [at EXCEPT ![d] = IF Admitted(Bureau) THEN "stageB" ELSE "answered"]
              /\ call' = [call EXCEPT ![d][Bureau] = Fetching(Bureau)]
              /\ cb' = [cb EXCEPT ![Bureau] = Consulted(Bureau)]
              /\ observed' = [observed EXCEPT ![Bureau] = ObservedAtOnce(Bureau)]
         ELSE /\ at' = [at EXCEPT ![d] = "stageB"]
              /\ call' = [call EXCEPT ![d][Bureau] = "calling"]
              /\ UNCHANGED <<cb, observed>>
    /\ UNCHANGED <<now, health, cooldown, historyVars>>

\* Mutation: only successes are sent, in the guarded design too.
SentSuccesses(d) == {v \in Independent : call[d][v] = "nil"}

\* Mutation: every resolution is sent, in the naive design too.
SentResolutions(d) == {v \in Independent : call[d][v] # "calling"}

\* What has been sent to the channel of a fan-in: every resolution, but only
\* the successes in the naive design.
Sent(d) ==
    {v \in Independent : IF d = "guarded" THEN call[d][v] # "calling"
                                          ELSE call[d][v] = "nil"}

\* Mutation: the first failure ends the fan-in.
ReceiveUntilFailure(d) ==
    /\ at[d] = "stageA"
    /\ \E v \in Sent(d) \ heard[d] :
         /\ heard' = [heard EXCEPT ![d] = @ \cup {v}]
         /\ IF heard'[d] = Independent \/ call[d][v] # "nil"
              THEN CallDependent(d)
              ELSE UNCHANGED <<now, at, since, call, health, guardVars, historyVars>>

Receive(d) ==
    /\ at[d] = "stageA"
    /\ \E v \in Sent(d) \ heard[d] : heard' = [heard EXCEPT ![d] = @ \cup {v}]
    /\ IF heard'[d] = Independent
         THEN CallDependent(d)
         ELSE UNCHANGED <<now, at, since, call, health, guardVars, historyVars>>

StopWaiting(d) ==
    /\ at[d] = "stageA"
    /\ now >= StageADeadline
    /\ CallDependent(d)
    /\ UNCHANGED heard

Work ==
    \E d \in Designs :
        \/ \E v \in Vendors : VendorAnswers(d, v) \/ TimesOut(d, v)
        \/ Receive(d)
        \/ StopWaiting(d)

\* Something is due at this moment.
Due ==
    \E d \in Designs :
        \/ \E v \in Vendors : /\ call[d][v] = "calling"
                              /\ now >= Least(AnswerTime(d, v), Deadline(d, v))
        \/ at[d] = "stageA" /\ (Sent(d) \ heard[d] # {} \/ now >= StageADeadline)

\* Time passes.
Tick ==
    /\ ~Due
    /\ now' = IF Idle THEN now ELSE now + 1
    /\ cooldown' = [v \in Vendors |-> IF cooldown[v] > 0 THEN cooldown[v] - 1 ELSE 0]
    /\ cb' = [v \in Vendors |-> [cb[v] EXCEPT !.cooling = cooldown'[v] > 0]]
    /\ quiet' = [v \in Vendors |->
                   IF failures[v] = trip THEN Least(quiet[v] + 1, OpenTimeout) ELSE 0]
    /\ UNCHANGED <<at, since, heard, call, health, observed, failures>>

HealthChanges(v) ==
    /\ Idle
    /\ \E h \in Health : health' = [health EXCEPT ![v] = h]
    /\ UNCHANGED <<now, at, since, heard, call, guardVars, historyVars>>

Next == Submit \/ Work \/ Tick \/ \E v \in Vendors : HealthChanges(v)

Spec == Init /\ [][Next]_vars

\* What is due happens, and time passes.
Fairness == WF_vars(Work) /\ WF_vars(Tick)

FairSpec == Spec /\ Fairness

-----------------------------------------------------------------------------
(* Safety.                                                                 *)

\* The vendors whose report a design's decision is made from.
Signals(d) == {v \in heard[d] \cup {Bureau} : call[d][v] = "nil"}

Breaker ==
    [state : BreakerState, requests : Nat, successes : Nat, failures : Nat,
     live : SUBSET {"call"}, cooling : BOOLEAN]

CallState == Error \cup {"none", "calling"}
Outcome   == {"none", "success", "error", "timeout", "breaker_open"}

\* Every variable has its type.  Whatever the vendors do, no design is still at
\* work when the outer budget has passed (pipeline.go:16-17), and no latency
\* beyond the guard's budget is ever recorded (guarded.go:108-114).
TypeOK ==
    /\ now \in 0..Budget
    /\ at \in [Designs -> {"stageA", "stageB", "answered"}]
    /\ since \in [Designs -> 0..Budget]
    /\ heard \in [Designs -> SUBSET Independent]
    /\ call \in [Designs -> [Vendors -> CallState]]
    /\ health \in [Vendors -> Health]
    /\ cb \in [Vendors -> Breaker]
    /\ \A v \in Vendors : cb[v].cooling <=> cooldown[v] > 0
    /\ cooldown \in [Vendors -> 0..OpenTimeout]
    /\ observed \in [Vendors -> [outcome : Outcome, latency : 0..ProviderBudget]]
    /\ failures \in [Vendors -> 0..trip]
    /\ quiet \in [Vendors -> 0..OpenTimeout]

\* A step counts against v: a failure is recorded, or its breaker opens.
Blames(v) ==
    \/ observed'[v] # observed[v] /\ observed'[v].outcome \in {"timeout", "error"}
    \/ cb'[v].state = "open" /\ cb[v].state # "open"

\* Each vendor has a breaker of its own, and Stage A leaves the bureau the
\* time it needs: nothing is held against a vendor that is well, whatever the
\* others do to the request (guarded.go:88-90, "one vendor tripping never
\* affects another"; pipeline.go:18-20).
OnlySickBlamed == [][\A v \in Vendors : Blames(v) => health[v] # "well"]_vars

\* Whatever falls ill, the guarded design has answered by the time the naive
\* one answers: admitting, budgeting and signalling failures never costs time
\* (scorer.go:13-17, naive.go:14-26).
NeverSlower ==
    [][ now' > now /\ at["naive"] = "answered" => at["guarded"] = "answered" ]_vars

\* And it decides on every signal the naive one has, except those of vendors
\* its breakers keep it from calling (guarded.go:106-108).
NoSignalLost ==
    Idle => \A v \in Signals("naive") :
              v \in Signals("guarded") \/ observed[v].outcome = "breaker_open"

\* Every application of the naive design, as long as one independent vendor is
\* not well, waits for the shared deadline, even for a vendor that failed at
\* once (naive.go:14-26, "the request blocks until the shared deadline").
NaivePinned ==
    [][ /\ at["naive"] = "stageA" /\ at'["naive"] # "stageA"
        /\ \E v \in Independent : health[v] # "well"
        => now = StageADeadline ]_vars

\* A vendor that has failed as many calls in a row as it takes to trip is
\* called at most once per open timeout until it answers (guarded.go:35-37).
ShedsLoad ==
    [][ \A v \in Vendors :
          /\ call["guarded"][v] # "calling" /\ call'["guarded"][v] = "calling"
          /\ failures[v] = trip
          => quiet[v] = OpenTimeout ]_vars

-----------------------------------------------------------------------------
(* Liveness.                                                               *)

\* Applications keep coming.
Traffic == WF_vars(Submit)

\* Once every vendor stays well, and applications keep coming, every decision
\* is, from some point on, made from all signals (guarded.go:25-28,
\* defaults.go:38-40).
Heals ==
    Traffic /\ <>[](\A v \in Vendors : health[v] = "well")
        => <>[](Idle => Signals("guarded") = Vendors)

\* A vendor that stays sick raises its latency alarm (alarms.tf:56-58, "One
\* alarm per vendor so a single bad vendor pages us"; emf.go:14-16).
SickVendorPages ==
    \A v \in Vendors :
        Traffic /\ <>[](health[v] = "slow") => <>(observed[v].latency > AlarmThreshold)
=============================================================================

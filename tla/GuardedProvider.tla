-------------------------- MODULE GuardedProvider --------------------------
(***************************************************************************)
(* One vendor behind providers.Guard (src/internal/providers/guarded.go):  *)
(* every Fetch runs through a circuit breaker of its own, with a timeout   *)
(* budget of its own.  The breaker itself is in CircuitBreaker; the        *)
(* outcome metric, a function of the error Fetch returns, is in Incident.  *)
(*                                                                         *)
(* Abstraction.  Durations are abstracted to the events that end them (the *)
(* budget expires, the open timeout elapses).                              *)
(***************************************************************************)
EXTENDS CircuitBreaker

CONSTANTS
    Calls,     \* concurrent Fetch calls of this vendor
    CallerCuts \* ways a caller's own context may end a call

CallerEnd == {"callerCanceled", "callerDeadline"}

ASSUME CallsAssumption  == IsFiniteSet(Calls)
ASSUME CutsAssumption   == CallerCuts \subseteq CallerEnd

VARIABLES
    cb,      \* the circuit breaker
    pc,      \* where each call of Fetch is
    cctx,    \* why the context given to the inner provider ended, if it did
    err,     \* the error of each call: of the inner Fetch, then of Fetch
    sick     \* whether the vendor currently fails or overruns its budget

vars == <<cb, pc, cctx, err, sick>>

CtxEnd == {"none", "budget"} \cup CallerEnd

\* ctx.Err() of a context that ended for the given reason.
CtxErr(end) == IF end = "callerCanceled" THEN "Canceled" ELSE "DeadlineExceeded"

-----------------------------------------------------------------------------
Init ==
    /\ cb = NewGeneration("closed")
    /\ pc = [c \in Calls |-> "idle"]
    /\ cctx = [c \in Calls |-> "none"]
    /\ err = [c \in Calls |-> "nil"]
    /\ sick \in BOOLEAN

\* Fetch on a breaker that fails fast: the vendor is not called.
FailFast(c) ==
    LET b == CurrentState(cb) IN
    /\ pc[c] = "idle"
    /\ Rejects(b)
    /\ cb' = b
    /\ err' = [err EXCEPT ![c] = Rejection(b)]
    /\ UNCHANGED <<pc, cctx, sick>>

\* Fetch admitted by the breaker: the vendor is called with a child context,
\* which is born ended if the caller's context already is.
CallVendor(c) ==
    LET b == CurrentState(cb) IN
    /\ pc[c] = "idle"
    /\ ~Rejects(b)
    /\ cb' = OnRequest(b, c)
    /\ pc' = [pc EXCEPT ![c] = "calling"]
    /\ \E end \in {"none"} \cup CallerCuts : cctx' = [cctx EXCEPT ![c] = end]
    /\ UNCHANGED <<err, sick>>

Fetch(c) == FailFast(c) \/ CallVendor(c)

\* The vendor's own budget expires; a vendor that is not sick answers before.
BudgetExpires(c) ==
    /\ pc[c] = "calling"
    /\ cctx[c] = "none"
    /\ sick
    /\ cctx' = [cctx EXCEPT ![c] = "budget"]
    /\ UNCHANGED <<cb, pc, err, sick>>

\* The caller goes away, or a deadline the caller set passes first.
CallerEnds(c) ==
    /\ pc[c] = "calling"
    /\ cctx[c] = "none"
    /\ \E end \in CallerCuts : cctx' = [cctx EXCEPT ![c] = end]
    /\ UNCHANGED <<cb, pc, err, sick>>

Returns(c, e) ==
    /\ pc[c] = "calling"
    /\ err' = [err EXCEPT ![c] = e]
    /\ pc' = [pc EXCEPT ![c] = "returned"]
    /\ UNCHANGED <<cb, cctx, sick>>

\* The vendor answers.  Nothing prevents an answer that is ready together
\* with the end of the context: select then takes either.
VendorAnswers(c) ==
    \E e \in {"nil", "vendorError"} : (e = "vendorError" <=> sick) /\ Returns(c, e)

\* Mutation: only the end of the caller's context is honoured.
ContextEndsForCallersOnly(c) == cctx[c] \in CallerEnd /\ Returns(c, CtxErr(cctx[c]))

\* Fetch honours its context (the contract of ports.Provider).
ContextEnds(c) == cctx[c] # "none" /\ Returns(c, CtxErr(cctx[c]))

\* The breaker takes the result into account and Fetch returns.
Settle(c) ==
    /\ pc[c] = "returned"
    /\ cb' = AfterRequest(cb, c, err[c])
    /\ pc' = [pc EXCEPT ![c] = "idle"]
    /\ cctx' = [cctx EXCEPT ![c] = "none"]
    /\ UNCHANGED <<err, sick>>

\* OpenTimeout elapses.
OpenTimeoutElapses ==
    /\ cb.cooling
    /\ cb' = [cb EXCEPT !.cooling = FALSE]
    /\ UNCHANGED <<pc, cctx, err, sick>>

\* The vendor falls sick or recovers.
HealthChanges ==
    /\ sick' = ~sick
    /\ UNCHANGED <<cb, pc, cctx, err>>

Next ==
    \/ \E c \in Calls : \/ FailFast(c)      \/ CallVendor(c)
                        \/ BudgetExpires(c) \/ CallerEnds(c)
                        \/ VendorAnswers(c) \/ ContextEnds(c)
                        \/ Settle(c)
    \/ OpenTimeoutElapses
    \/ HealthChanges

Spec == Init /\ [][Next]_vars

(* The timers fire, a call whose context has ended returns (the Provider   *)
(* contract), a healthy vendor answers, and a returned call is settled.    *)
(* The budget needs strong fairness only because a vendor may fall sick    *)
(* and recover for ever while one call is in progress: its timer runs on.  *)
(* Nothing makes a sick vendor answer, or a caller call.                   *)
Fairness ==
    /\ \A c \in Calls : /\ SF_vars(BudgetExpires(c))
                        /\ WF_vars(ContextEnds(c))
                        /\ WF_vars(~sick /\ VendorAnswers(c))
                        /\ WF_vars(Settle(c))
    /\ WF_vars(OpenTimeoutElapses)

FairSpec == Spec /\ Fairness

-----------------------------------------------------------------------------
(* Safety.                                                                 *)

Breaker ==
    [state : BreakerState, requests : Nat, successes : Nat, failures : Nat,
     live : SUBSET Calls, cooling : BOOLEAN]

\* Every variable of a guarded provider has its type.
TypeOK ==
    /\ cb \in Breaker
    /\ pc \in [Calls -> {"idle", "calling", "returned"}]
    /\ cctx \in [Calls -> CtxEnd]
    /\ err \in [Calls -> Error]
    /\ sick \in BOOLEAN

\* However the calls interleave, a recovering vendor never has more trial
\* calls in progress or already credited than HalfOpenMaxRequests allows
\* (guarded.go:25, "how many trial requests are allowed while half-open").
TrialsBounded ==
    cb.state = "half-open" => cb.successes + Cardinality(cb.live) <= maxRequests

\* A half-open breaker that turns calls away is waiting for a trial that is
\* still in progress: no order of late, cancelled or stale results uses up the
\* trials and leaves the vendor shut out for good (gobreaker has no way out of
\* half-open other than the result of a trial).
NotWedged ==
    cb.state = "half-open" /\ Rejects(cb) =>
        \E c \in cb.live : pc[c] # "idle"

\* The breaker closes only on the result of a trial of the present half-open
\* period: the late success of a call admitted before the breaker opened never
\* closes it (guarded.go:61-78, one breaker shared by concurrent requests).
ClosesOnTrial ==
    [][ cb.state # "closed" /\ cb'.state = "closed" =>
          /\ cb.state = "half-open"
          /\ \E c \in cb.live : /\ pc[c] = "returned" /\ pc'[c] = "idle"
                              /\ IsSuccessful(err[c]) ]_vars

\* Until the open timeout has elapsed no call reaches the vendor, and neither
\* late results of earlier calls nor refused ones end that period early
\* (guarded.go:106-108, "fast-fail").
OpenShieldsVendor ==
    [][ cb.cooling =>
          /\ cb'.state = "open"
          /\ \A c \in Calls : pc[c] = "idle" => pc'[c] = "idle" ]_vars

-----------------------------------------------------------------------------
(* Liveness.                                                               *)

\* A call that reaches the vendor ends, whatever the vendor does: its own
\* budget bounds it (guarded.go:110-113).
FetchReturns == \A c \in Calls : (pc[c] = "calling") ~> (pc[c] = "idle")

\* No call is ended by a deadline the caller set; none is ended by the caller
\* going away.
NoCallerDeadline == \A c \in Calls : cctx[c] # "callerDeadline"
NoCallerCancels  == \A c \in Calls : cctx[c] # "callerCanceled"

\* While the vendor answers within its budget its breaker never opens, however
\* many callers go away before they have the answer (guarded.go:68-71).
HealthyVendorNeverTripped ==
    [](~sick /\ NoCallerDeadline) => [](cb.state = "closed")

\* Requests keep coming: whenever the breaker would let a call through for
\* long enough, some call is made.
Traffic == WF_vars(\E c \in Calls : CallVendor(c))

\* A vendor that stays healthy from some point on is used again, under
\* continuing traffic: the breaker closes and stays closed, whatever trials
\* are cancelled (guarded.go:25-28).
Recovers ==
    Traffic /\ <>[](~sick /\ NoCallerDeadline) => <>[](cb.state = "closed")

\* From some point on, no call of a closed breaker waits out the vendor's
\* budget.
StopsCosting == <>[](cb.state = "closed" => \A c \in Calls : cctx[c] # "budget")

\* A vendor that stays sick stops costing its callers the budget, as long as
\* they do not go away themselves (guarded.go:36-37).
SickVendorShed == <>[](sick /\ NoCallerCancels) => StopsCosting

\* What callers do never opens the breaker of a healthy vendor (guarded.go:
\* 68-71: a caller going away "should NOT be held against the vendor").
CallersNeverTrip == []~sick => [](cb.state = "closed")
=============================================================================

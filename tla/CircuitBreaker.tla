--------------------------- MODULE CircuitBreaker ---------------------------
(* The circuit breaker of one vendor: github.com/sony/gobreaker/v2         *)
(* (external) with the settings that providers.Guard gives it              *)
(* (src/internal/providers/guarded.go:53-85).  A breaker is a record, its  *)
(* operations are functions of it; GuardedProvider runs concurrent calls   *)
(* through one breaker, Incident puts one in front of each vendor.         *)
(*                                                                         *)
(* gobreaker's behaviour is modelled from the settings (MaxRequests,       *)
(* Timeout, ReadyToTrip, IsSuccessful; no Interval, so the counts of a     *)
(* closed breaker are never cleared by time) and the call Execute.         *)
(*                                                                         *)
(* Abstraction.  A breaker numbers its generations only to recognise the   *)
(* result of a call admitted before the last change of state; here it      *)
(* keeps the set `live` of the calls admitted in the current generation    *)
(* instead.  `cooling` says that the open timeout has not elapsed yet.     *)
EXTENDS Naturals, FiniteSets

CONSTANTS
    ConsecutiveFailuresToTrip, \* GuardConfig.ConsecutiveFailuresToTrip
    HalfOpenMaxRequests        \* GuardConfig.HalfOpenMaxRequests

ASSUME TripAssumption   == ConsecutiveFailuresToTrip \in Nat
ASSUME TrialsAssumption == HalfOpenMaxRequests \in Nat

BreakerState == {"closed", "open", "half-open"}
InnerError   == {"nil", "vendorError", "DeadlineExceeded", "Canceled"}
Error        == InnerError \cup {"ErrOpenState", "ErrTooManyRequests"}

-----------------------------------------------------------------------------
(* Settings: zero means the default.                                       *)

trip == IF ConsecutiveFailuresToTrip = 0 THEN 5 ELSE ConsecutiveFailuresToTrip

maxRequests == IF HalfOpenMaxRequests = 0 THEN 1 ELSE HalfOpenMaxRequests

\* Mutation: one failure too late.
ReadyToTripLate(consecutiveFailures) == consecutiveFailures > trip

ReadyToTrip(consecutiveFailures) == consecutiveFailures >= trip

\* Mutation: a cancelled call counts as a failure.
IsSuccessfulOnlyAnswers(e) == e = "nil"

\* Mutation: only an error answered by the vendor counts as a failure.
IsSuccessfulUnlessAnswered(e) == e # "vendorError"

IsSuccessful(e) == e \in {"nil", "Canceled"}

-----------------------------------------------------------------------------
(* The breaker, as functions of its state.  Only a half-open breaker reads *)
(* its request and success counts, so only there are they kept.            *)

NewGeneration(s) ==
    [state |-> s, requests |-> 0, successes |-> 0, failures |-> 0,
     live |-> {}, cooling |-> (s = "open")]

\* Mutation: the open timeout is not awaited.
CurrentStateImpatient(b) == IF b.state = "open" THEN NewGeneration("half-open") ELSE b

\* An open breaker turns half-open lazily, when it is next consulted after
\* its timeout has elapsed.
CurrentState(b) ==
    IF b.state = "open" /\ ~b.cooling THEN NewGeneration("half-open") ELSE b

\* Mutation: one trial too many.
RejectsTooLate(b) ==
    \/ b.state = "open"
    \/ b.state = "half-open" /\ b.requests > maxRequests

Rejects(b) ==
    \/ b.state = "open"
    \/ b.state = "half-open" /\ b.requests >= maxRequests

Rejection(b) == IF b.state = "open" THEN "ErrOpenState" ELSE "ErrTooManyRequests"

OnRequest(b, c) ==
    [b EXCEPT !.live = @ \cup {c},
              !.requests = IF b.state = "half-open" THEN @ + 1 ELSE @]

\* Mutation: a success pays back one failure instead of ending the run.
OnSuccessDecays(b) ==
    IF b.state = "half-open"
      THEN IF b.successes + 1 >= maxRequests
             THEN NewGeneration("closed")
             ELSE [b EXCEPT !.successes = @ + 1]
      ELSE [b EXCEPT !.failures = @ - 1]

\* Mutation: one success more than there can be is needed to close.
OnSuccessTooStrict(b) ==
    IF b.state = "half-open"
      THEN IF b.successes + 1 > maxRequests
             THEN NewGeneration("closed")
             ELSE [b EXCEPT !.successes = @ + 1]
      ELSE [b EXCEPT !.failures = 0]

OnSuccess(b) ==
    IF b.state = "half-open"
      THEN IF b.successes + 1 >= maxRequests
             THEN NewGeneration("closed")
             ELSE [b EXCEPT !.successes = @ + 1]
      ELSE [b EXCEPT !.failures = 0]

OnFailure(b) ==
    IF b.state = "half-open" \/ ReadyToTrip(b.failures + 1)
      THEN NewGeneration("open")
      ELSE [b EXCEPT !.failures = @ + 1]

\* Mutation: a cancelled trial is not taken into account at all.
AfterRequestIgnoringCancel(b0, c, e) ==
    LET b == CurrentState(b0)
        settled == [b EXCEPT !.live = @ \ {c}]
    IN  IF c \notin b.live      THEN b
        ELSE IF e = "Canceled"  THEN settled
        ELSE IF IsSuccessful(e) THEN OnSuccess(settled)
                                ELSE OnFailure(settled)

\* Mutation: the result of a call of an earlier generation counts.
AfterRequestStale(b0, c, e) ==
    LET b == CurrentState(b0)
        settled == [b EXCEPT !.live = @ \ {c}]
    IN  IF IsSuccessful(e) THEN OnSuccess(settled) ELSE OnFailure(settled)

AfterRequest(b0, c, e) ==
    LET b == CurrentState(b0)
        settled == [b EXCEPT !.live = @ \ {c}]
    IN  IF c \notin b.live     THEN b
        ELSE IF IsSuccessful(e) THEN OnSuccess(settled)
                                ELSE OnFailure(settled)
=============================================================================

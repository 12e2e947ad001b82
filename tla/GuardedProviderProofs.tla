----------------------- MODULE GuardedProviderProofs -----------------------
(* Proofs about GuardedProvider, for every number of concurrent calls and  *)
(* every setting of the breaker.                                           *)
EXTENDS GuardedProvider, FiniteSetTheorems, TLAPS

(* The inductive invariant.  A trial is counted in `requests` when it is   *)
(* admitted and stays in `live` until its result is credited, so the two   *)
(* differ by the successes; a failure ends the half-open period.           *)

\* What the invariant says of a breaker b when the calls in P are in progress.
Sound(b, P) ==
    /\ b \in Breaker
    /\ b.live \subseteq P
    /\ b.cooling => b.state = "open"
    /\ b.state = "open" => b.live = {}
    /\ b.state = "half-open" =>
          /\ b.requests = b.successes + Cardinality(b.live)
          /\ b.requests <= maxRequests
          /\ b.successes < maxRequests

InProgress == {c \in Calls : pc[c] # "idle"}

IInv ==
    /\ Sound(cb, InProgress)
    /\ pc \in [Calls -> {"idle", "calling", "returned"}]
    /\ cctx \in [Calls -> CtxEnd]
    /\ err \in [Calls -> Error]
    /\ sick \in BOOLEAN

-----------------------------------------------------------------------------
(* The breaker's operators.                                                *)

\* The settings Guard applies are positive numbers (guarded.go:57-63).
LEMMA SettingsPositive == trip \in Nat \ {0} /\ maxRequests \in Nat \ {0}
  BY TripAssumption, TrialsAssumption DEF trip, maxRequests

\* A fresh generation of the breaker is sound in every state.
LEMMA NewGenerationSound ==
    ASSUME NEW s \in BreakerState, NEW P
    PROVE  Sound(NewGeneration(s), P) /\ NewGeneration(s).state = s
<1> DEFINE g == NewGeneration(s)
<1>1. /\ g.state = s /\ g.requests = 0 /\ g.successes = 0 /\ g.failures = 0
      /\ g.live = {} /\ (g.cooling => s = "open")
  BY DEF NewGeneration
<1>2. g \in Breaker
  <2>1. (s = "open") \in BOOLEAN
    OBVIOUS
  <2> QED
    BY <2>1 DEF NewGeneration, Breaker
<1> HIDE DEF g
<1>3. Sound(g, P)
  BY <1>1, <1>2, SettingsPositive, FS_EmptySet DEF Sound, BreakerState
<1> QED
  BY <1>1, <1>3 DEF g

\* Consulting the breaker keeps it sound.
LEMMA CurrentStateSound ==
    ASSUME NEW b, NEW P, Sound(b, P)
    PROVE  Sound(CurrentState(b), P)
  BY NewGenerationSound DEF CurrentState, BreakerState

\* Admitting a call that is not in progress keeps the breaker sound.
LEMMA OnRequestSound ==
    ASSUME NEW b, NEW P, NEW c \in Calls,
           Sound(b, P), c \notin P, ~Rejects(b)
    PROVE  Sound(OnRequest(b, c), P \cup {c})
<1> DEFINE r == OnRequest(b, c)
<1>1. /\ r \in Breaker
      /\ r.state = b.state /\ r.successes = b.successes /\ r.cooling = b.cooling
      /\ r.live = b.live \cup {c}
      /\ r.requests = IF b.state = "half-open" THEN b.requests + 1 ELSE b.requests
  <2> DEFINE n == IF b.state = "half-open" THEN b.requests + 1 ELSE b.requests
  <2>1. r = [[b EXCEPT !.live = b.live \cup {c}] EXCEPT !.requests = n]
    BY DEF OnRequest, Sound, Breaker
  <2>2. n \in Nat /\ b.live \cup {c} \in SUBSET Calls
    BY DEF Sound, Breaker
  <2> HIDE DEF n
  <2>3. r \in Breaker /\ r.live = b.live \cup {c} /\ r.requests = n
    BY <2>1, <2>2 DEF Sound, Breaker
  <2> QED
    BY <2>1, <2>3 DEF Sound, Breaker, n
<1>2. Cardinality(r.live) = Cardinality(b.live) + 1 /\ Cardinality(b.live) \in Nat
  BY <1>1, CallsAssumption, FS_Subset, FS_AddElement, FS_CardinalityType
     DEF Sound, Breaker
<1>3. r.state = "half-open" => /\ r.requests = r.successes + Cardinality(r.live)
                               /\ r.requests <= maxRequests
                               /\ r.successes < maxRequests
  BY <1>1, <1>2, SettingsPositive DEF Sound, Rejects, Breaker
<1> HIDE DEF r
<1>4. Sound(r, P \cup {c})
  BY <1>1, <1>3 DEF Sound, Rejects
<1> QED
  BY <1>4 DEF r

\* Taking the result of a call into account keeps the breaker sound, and the
\* call is no longer one of its calls in progress.
LEMMA AfterRequestSound ==
    ASSUME NEW b0, NEW P, NEW c \in Calls, NEW e, Sound(b0, P)
    PROVE  Sound(AfterRequest(b0, c, e), P \ {c})
<1> DEFINE b == CurrentState(b0)
           s == [b EXCEPT !.live = @ \ {c}]
<1>1. Sound(b, P)
  BY CurrentStateSound
<1> HIDE DEF b
<1>2. CASE c \notin b.live
  BY <1>1, <1>2 DEF AfterRequest, Sound, b
<1>3. CASE c \in b.live
  <2>1. /\ s \in Breaker
        /\ s.state = b.state /\ s.requests = b.requests /\ s.cooling = b.cooling
        /\ s.successes = b.successes /\ s.failures = b.failures
        /\ s.live = b.live \ {c}
    BY <1>1 DEF Sound, Breaker
  <2>2. Cardinality(s.live) = Cardinality(b.live) - 1 /\ Cardinality(b.live) \in Nat
    BY <1>1, <1>3, <2>1, CallsAssumption, FS_Subset, FS_RemoveElement, FS_CardinalityType
       DEF Sound, Breaker
  <2>3. s.state # "open" /\ ~s.cooling
    BY <1>1, <1>3, <2>1 DEF Sound
  <2> HIDE DEF s
  <2>4. Sound(OnSuccess(s), P \ {c})
    <3>1. CASE s.state = "half-open" /\ s.successes + 1 >= maxRequests
      BY <3>1, NewGenerationSound DEF OnSuccess, BreakerState
    <3>2. CASE s.state = "half-open" /\ ~(s.successes + 1 >= maxRequests)
      <4> DEFINE r == [s EXCEPT !.successes = @ + 1]
      <4>1. /\ r \in Breaker
            /\ r.state = s.state /\ r.requests = s.requests /\ r.cooling = s.cooling
            /\ r.successes = s.successes + 1 /\ r.live = s.live
        BY <2>1 DEF Breaker
      <4> HIDE DEF r
      <4>2. Sound(r, P \ {c})
        BY <1>1, <2>1, <2>2, <2>3, <3>2, <4>1, SettingsPositive DEF Sound, Breaker
      <4> QED
        BY <3>2, <4>2 DEF OnSuccess, r
    <3>3. CASE s.state = "closed"
      <4> DEFINE r == [s EXCEPT !.failures = 0]
      <4>1. /\ r \in Breaker
            /\ r.state = s.state /\ r.cooling = s.cooling /\ r.live = s.live
        BY <2>1 DEF Breaker
      <4> HIDE DEF r
      <4>2. Sound(r, P \ {c})
        BY <1>1, <2>1, <2>3, <3>3, <4>1 DEF Sound
      <4> QED
        BY <3>3, <4>2 DEF OnSuccess, r
    <3> QED
      BY <2>1, <2>3, <3>1, <3>2, <3>3 DEF Breaker, BreakerState
  <2>5. Sound(OnFailure(s), P \ {c})
    <3>1. CASE s.state = "half-open" \/ ReadyToTrip(s.failures + 1)
      BY <3>1, NewGenerationSound DEF OnFailure, BreakerState
    <3>2. CASE ~(s.state = "half-open" \/ ReadyToTrip(s.failures + 1))
      <4> DEFINE r == [s EXCEPT !.failures = @ + 1]
      <4>1. /\ r \in Breaker
            /\ r.state = s.state /\ r.cooling = s.cooling /\ r.live = s.live
        BY <2>1 DEF Breaker
      <4> HIDE DEF r
      <4>2. Sound(r, P \ {c})
        BY <1>1, <2>1, <2>3, <3>2, <4>1 DEF Sound
      <4> QED
        BY <3>2, <4>2 DEF OnFailure, r
    <3> QED
      BY <3>1, <3>2
  <2> QED
    BY <1>3, <2>4, <2>5 DEF AfterRequest, b, s
<1> QED
  BY <1>2, <1>3

-----------------------------------------------------------------------------
(* The invariant.                                                          *)

\* The error of a refused call and of an ended context are errors.
LEMMA ErrorTypes ==
    /\ \A b : Rejection(b) \in Error
    /\ \A end : CtxErr(end) \in Error
  BY DEF Rejection, CtxErr, Error, InnerError

\* The invariant holds when the process starts.
LEMMA InitIInv == Init => IInv
  BY NewGenerationSound
     DEF IInv, Init, CtxEnd, Error, InnerError, BreakerState

\* Every step preserves the invariant.
LEMMA NextIInv == IInv /\ [Next]_vars => IInv'
<1> SUFFICES ASSUME IInv, [Next]_vars PROVE IInv'
  OBVIOUS
<1>0. /\ Sound(cb, InProgress)
      /\ pc \in [Calls -> {"idle", "calling", "returned"}]
      /\ cctx \in [Calls -> CtxEnd]
      /\ err \in [Calls -> Error]
      /\ sick \in BOOLEAN
  BY DEF IInv
<1>1. ASSUME NEW c \in Calls, FailFast(c) PROVE IInv'
  <2>1. Sound(cb', InProgress')
    BY <1>0, <1>1, CurrentStateSound DEF FailFast, InProgress
  <2> QED
    BY <1>0, <1>1, <2>1, ErrorTypes DEF FailFast, IInv
<1>2. ASSUME NEW c \in Calls, CallVendor(c) PROVE IInv'
  <2>1. Sound(CurrentState(cb), InProgress)
    BY <1>0, CurrentStateSound
  <2>2. InProgress' = InProgress \cup {c} /\ c \notin InProgress
    BY <1>0, <1>2 DEF CallVendor, InProgress
  <2>3. Sound(cb', InProgress')
    BY <1>2, <2>1, <2>2, OnRequestSound DEF CallVendor
  <2> QED
    BY <1>0, <1>2, <2>3, CutsAssumption DEF CallVendor, CtxEnd, IInv
<1>3. ASSUME NEW c \in Calls, BudgetExpires(c) PROVE IInv'
  BY <1>0, <1>3 DEF BudgetExpires, IInv, InProgress, CtxEnd
<1>4. ASSUME NEW c \in Calls, CallerEnds(c) PROVE IInv'
  BY <1>0, <1>4, CutsAssumption DEF CallerEnds, IInv, InProgress, CtxEnd
<1>5. ASSUME NEW c \in Calls, NEW e \in InnerError, Returns(c, e) PROVE IInv'
  <2>1. InProgress' = InProgress
    BY <1>0, <1>5 DEF Returns, InProgress
  <2> QED
    BY <1>0, <1>5, <2>1 DEF Returns, Error, IInv
<1>6. ASSUME NEW c \in Calls, VendorAnswers(c) PROVE IInv'
  BY <1>5, <1>6 DEF VendorAnswers, InnerError
<1>7. ASSUME NEW c \in Calls, ContextEnds(c) PROVE IInv'
  BY <1>5, <1>7 DEF ContextEnds, CtxErr, InnerError
<1>8. ASSUME NEW c \in Calls, Settle(c) PROVE IInv'
  <2>1. InProgress' = InProgress \ {c}
    BY <1>0, <1>8 DEF Settle, InProgress
  <2>2. Sound(cb', InProgress')
    BY <1>0, <1>8, <2>1, AfterRequestSound DEF Settle
  <2> QED
    BY <1>0, <1>8, <2>2 DEF Settle, CtxEnd, IInv
<1>9. CASE OpenTimeoutElapses
  <2>1. /\ cb' \in Breaker
        /\ cb'.state = cb.state /\ cb'.requests = cb.requests
        /\ cb'.successes = cb.successes /\ cb'.live = cb.live
        /\ ~cb'.cooling
    BY <1>0, <1>9 DEF OpenTimeoutElapses, Sound, Breaker
  <2> QED
    BY <1>0, <1>9, <2>1 DEF OpenTimeoutElapses, Sound, InProgress, IInv
<1>10. CASE HealthChanges
  BY <1>0, <1>10 DEF HealthChanges, IInv, InProgress
<1>11. CASE UNCHANGED vars
  BY <1>0, <1>11 DEF vars, InProgress, IInv
<1> QED
  BY <1>1, <1>2, <1>3, <1>4, <1>6, <1>7, <1>8, <1>9, <1>10, <1>11 DEF Next

\* Every reachable state of a guarded provider satisfies the invariant.
THEOREM Invariance == Spec => []IInv
  BY InitIInv, NextIInv, PTL DEF Spec

-----------------------------------------------------------------------------
(* What the invariant gives.                                               *)

\* Type correctness of the guarded provider (guarded.go:103-119).
THEOREM TypeCorrect == Spec => []TypeOK
<1>1. IInv => TypeOK
  BY DEF IInv, Sound, TypeOK
<1> QED
  BY <1>1, Invariance, PTL

\* For every number of concurrent requests and every HalfOpenMaxRequests, the
\* trials of a half-open breaker are bounded (guarded.go:25 and 63).
THEOREM TrialsAreBounded == Spec => []TrialsBounded
<1>1. IInv => TrialsBounded
  BY SettingsPositive DEF IInv, Sound, TrialsBounded, Breaker
<1> QED
  BY <1>1, Invariance, PTL

\* For every number of concurrent requests and every setting, a half-open
\* breaker that refuses a call is waiting for a trial still in progress.
THEOREM NeverWedged == Spec => []NotWedged
<1>1. IInv => NotWedged
  <2> SUFFICES ASSUME IInv, cb.state = "half-open", Rejects(cb)
               PROVE  \E c \in cb.live : pc[c] # "idle"
    BY DEF NotWedged
  <2>1. Cardinality(cb.live) # 0
    BY SettingsPositive DEF IInv, Sound, Breaker, Rejects
  <2>2. cb.live # {}
    BY <2>1, FS_EmptySet
  <2> QED
    BY <2>2 DEF IInv, Sound, InProgress
<1> QED
  BY <1>1, Invariance, PTL

\* While a breaker cools down it is open and has no call in progress of its
\* own, so consulting it or settling an earlier call leaves it as it is.
LEMMA CoolingIsStill ==
    ASSUME NEW b, NEW P, NEW c, NEW e, Sound(b, P), b.cooling
    PROVE  /\ b.state = "open"
           /\ CurrentState(b) = b
           /\ Rejects(CurrentState(b))
           /\ AfterRequest(b, c, e) = b
<1>1. b.state = "open" /\ CurrentState(b) = b /\ c \notin b.live
  BY DEF Sound, CurrentState
<1> QED
  BY <1>1 DEF Rejects, AfterRequest

\* Whatever results arrive late, no call reaches the vendor before the open
\* timeout has elapsed (guarded.go:106-108).
THEOREM OpenShields == Spec => OpenShieldsVendor
<1>1. IInv /\ [Next]_vars =>
        (cb.cooling => /\ cb'.state = "open"
                       /\ \A c \in Calls : pc[c] = "idle" => pc'[c] = "idle")
  <2> SUFFICES ASSUME IInv, [Next]_vars, cb.cooling
               PROVE  /\ cb'.state = "open"
                      /\ \A c \in Calls : pc[c] = "idle" => pc'[c] = "idle"
    OBVIOUS
  <2> USE DEF IInv
  <2>1. CASE \E c \in Calls : FailFast(c) \/ CallVendor(c)
    BY <2>1, CoolingIsStill DEF FailFast, CallVendor
  <2>2. CASE \E c \in Calls : BudgetExpires(c) \/ CallerEnds(c)
    BY <2>2, CoolingIsStill DEF BudgetExpires, CallerEnds
  <2>3. CASE \E c \in Calls : VendorAnswers(c) \/ ContextEnds(c)
    BY <2>3, CoolingIsStill DEF VendorAnswers, ContextEnds, Returns
  <2>4. CASE \E c \in Calls : Settle(c)
    BY <2>4, CoolingIsStill DEF Settle
  <2>5. CASE OpenTimeoutElapses
    BY <2>5, CoolingIsStill DEF OpenTimeoutElapses, Sound, Breaker
  <2>6. CASE HealthChanges
    BY <2>6, CoolingIsStill DEF HealthChanges
  <2>7. CASE UNCHANGED vars
    BY <2>7, CoolingIsStill DEF vars
  <2> QED
    BY <2>1, <2>2, <2>3, <2>4, <2>5, <2>6, <2>7 DEF Next
<1> QED
  BY <1>1, Invariance, PTL DEF Spec, OpenShieldsVendor

\* A breaker that is not closed can be closed by one thing only.
LEMMA OnlyTrialsClose ==
    ASSUME NEW b, NEW P, NEW c \in Calls, NEW e, Sound(b, P),
           b.state # "closed", AfterRequest(b, c, e).state = "closed"
    PROVE  b.state = "half-open" /\ c \in b.live /\ IsSuccessful(e)
<1> DEFINE s == [b EXCEPT !.live = @ \ {c}]
<1>1. CASE b.state = "open"
  <2>1. c \notin CurrentState(b).live /\ CurrentState(b).state # "closed"
    BY <1>1 DEF CurrentState, NewGeneration, Sound
  <2> QED
    BY <2>1 DEF AfterRequest
<1>2. CASE b.state = "half-open"
  <2>1. CurrentState(b) = b /\ s.state = "half-open"
    BY <1>2 DEF CurrentState, Sound, Breaker
  <2>2. c \in b.live
    BY <1>2, <2>1 DEF AfterRequest
  <2>3. OnFailure(s).state = "open"
    BY <2>1 DEF OnFailure, NewGeneration
  <2> HIDE DEF s
  <2>4. IsSuccessful(e)
    BY <2>1, <2>2, <2>3 DEF AfterRequest, s
  <2> QED
    BY <1>2, <2>2, <2>4
<1> QED
  BY <1>1, <1>2 DEF Sound, Breaker, BreakerState

\* For every number of concurrent requests, the breaker closes only on the
\* successful result of a trial of the present half-open period
\* (guarded.go:61-78).
THEOREM ClosedByTrials == Spec => ClosesOnTrial
<1>1. IInv /\ [Next]_vars =>
        (cb.state # "closed" /\ cb'.state = "closed" =>
           /\ cb.state = "half-open"
           /\ \E c \in cb.live : /\ pc[c] = "returned" /\ pc'[c] = "idle"
                               /\ IsSuccessful(err[c]))
  <2> SUFFICES ASSUME IInv, [Next]_vars, cb.state # "closed", cb'.state = "closed"
               PROVE  /\ cb.state = "half-open"
                      /\ \E c \in cb.live : /\ pc[c] = "returned" /\ pc'[c] = "idle"
                                          /\ IsSuccessful(err[c])
    OBVIOUS
  <2> USE DEF IInv
  <2>0. CurrentState(cb).state # "closed" /\ Sound(CurrentState(cb), InProgress)
    BY CurrentStateSound DEF CurrentState, NewGeneration
  <2>1. ASSUME NEW c \in Calls, Settle(c)
        PROVE  /\ cb.state = "half-open" /\ c \in cb.live
               /\ pc[c] = "returned" /\ pc'[c] = "idle" /\ IsSuccessful(err[c])
    BY <2>1, OnlyTrialsClose DEF Settle
  <2>2. ASSUME NEW c \in Calls, FailFast(c) \/ CallVendor(c) PROVE FALSE
    <3>1. OnRequest(CurrentState(cb), c).state = CurrentState(cb).state
      BY <2>0 DEF OnRequest, Sound, Breaker
    <3> QED
      BY <2>0, <2>2, <3>1 DEF FailFast, CallVendor
  <2>3. ASSUME NEW c \in Calls,
               BudgetExpires(c) \/ CallerEnds(c) \/ VendorAnswers(c) \/ ContextEnds(c)
        PROVE  FALSE
    BY <2>3 DEF BudgetExpires, CallerEnds, VendorAnswers, ContextEnds, Returns
  <2>4. CASE OpenTimeoutElapses \/ HealthChanges \/ UNCHANGED vars
    BY <2>4 DEF OpenTimeoutElapses, HealthChanges, vars, Sound, Breaker
  <2> QED
    BY <2>1, <2>2, <2>3, <2>4 DEF Next
<1> QED
  BY <1>1, Invariance, PTL DEF Spec, ClosesOnTrial

-----------------------------------------------------------------------------
(* A healthy vendor.                                                       *)

\* The breaker is closed and no call in progress will count as a failure.
NothingCounts ==
    /\ cb.state = "closed"
    /\ \A c \in Calls : /\ cctx[c] # "budget"
                        /\ pc[c] = "returned" => IsSuccessful(err[c])

\* The result of a call that does not count as a failure leaves a closed
\* breaker closed.
LEMMA SuccessKeepsClosed ==
    ASSUME NEW b, NEW P, NEW c, NEW e, Sound(b, P), b.state = "closed", IsSuccessful(e)
    PROVE  AfterRequest(b, c, e).state = "closed"
<1> DEFINE s == [b EXCEPT !.live = @ \ {c}]
<1>1. CurrentState(b) = b
  BY DEF CurrentState
<1>2. s.state = "closed" /\ OnSuccess(s).state = "closed"
  BY DEF Sound, Breaker, OnSuccess
<1> QED
  BY <1>1, <1>2 DEF AfterRequest

\* While the vendor is healthy and callers set no deadline, no step makes a
\* failure of anything.
LEMMA HealthyStep ==
    IInv /\ NothingCounts /\ ~sick /\ NoCallerDeadline /\ NoCallerDeadline' /\ [Next]_vars
        => NothingCounts'
<1> SUFFICES ASSUME IInv, NothingCounts, ~sick, NoCallerDeadline, NoCallerDeadline', [Next]_vars
             PROVE  NothingCounts'
  OBVIOUS
<1> USE DEF IInv, NothingCounts
<1>1. CurrentState(cb) = cb /\ ~Rejects(cb) /\ Sound(cb, InProgress)
  BY DEF CurrentState, Rejects
<1>2. ASSUME NEW c \in Calls, FailFast(c) PROVE FALSE
  BY <1>1, <1>2 DEF FailFast
<1>3. ASSUME NEW c \in Calls, CallVendor(c) PROVE NothingCounts'
  <2>1. OnRequest(cb, c).state = "closed"
    BY <1>1 DEF OnRequest, Sound, Breaker
  <2>2. "budget" \notin {"none"} \cup CallerCuts
    BY CutsAssumption DEF CallerEnd
  <2> QED
    BY <1>1, <1>3, <2>1, <2>2 DEF CallVendor
<1>4. ASSUME NEW c \in Calls, BudgetExpires(c) PROVE FALSE
  BY <1>4 DEF BudgetExpires
<1>5. ASSUME NEW c \in Calls, CallerEnds(c) PROVE NothingCounts'
  <2>1. "budget" \notin CallerCuts
    BY CutsAssumption DEF CallerEnd
  <2> QED
    BY <1>5, <2>1 DEF CallerEnds
<1>6. ASSUME NEW c \in Calls, NEW e, IsSuccessful(e), Returns(c, e) PROVE NothingCounts'
  BY <1>6 DEF Returns
<1>7. ASSUME NEW c \in Calls, VendorAnswers(c) PROVE NothingCounts'
  <2>1. Returns(c, "nil") /\ IsSuccessful("nil")
    BY <1>7 DEF VendorAnswers, IsSuccessful
  <2> QED
    BY <1>6, <2>1
<1>8. ASSUME NEW c \in Calls, ContextEnds(c) PROVE NothingCounts'
  <2>1. cctx[c] = "callerCanceled" /\ Returns(c, CtxErr(cctx[c]))
    BY <1>8 DEF ContextEnds, NoCallerDeadline, CtxEnd, CallerEnd
  <2>2. Returns(c, "Canceled") /\ IsSuccessful("Canceled")
    BY <2>1 DEF CtxErr, IsSuccessful
  <2> QED
    BY <1>6, <2>2
<1>9. ASSUME NEW c \in Calls, Settle(c) PROVE NothingCounts'
  <2>1. AfterRequest(cb, c, err[c]).state = "closed"
    BY <1>1, <1>9, SuccessKeepsClosed DEF Settle
  <2> QED
    BY <1>9, <2>1 DEF Settle
<1>10. CASE OpenTimeoutElapses \/ HealthChanges \/ UNCHANGED vars
  BY <1>10 DEF OpenTimeoutElapses, HealthChanges, vars, Sound, Breaker
<1> QED
  BY <1>2, <1>3, <1>4, <1>5, <1>7, <1>8, <1>9, <1>10 DEF Next

\* For every number of concurrent requests and every setting, the breaker of a
\* vendor that answers within its budget never opens, however many callers go
\* away before they have the answer, as long as none of them sets a deadline
\* of its own (guarded.go:68-76).
THEOREM HealthyIsNeverTripped == Spec => HealthyVendorNeverTripped
<1>1. Init => NothingCounts
  BY DEF Init, NothingCounts, NewGeneration
<1>2. NothingCounts => cb.state = "closed"
  BY DEF NothingCounts
<1> QED
  BY <1>1, <1>2, HealthyStep, Invariance, PTL DEF Spec, HealthyVendorNeverTripped

\* A context ends by the budget or in a way callers do end theirs
\* (guarded.go:112).
EndsAsAllowed == \A c \in Calls : cctx[c] \in {"none", "budget"} \cup CallerCuts

\* No step of Fetch ends a context in any other way.
LEMMA NextEndsAsAllowed == TypeOK /\ EndsAsAllowed /\ [Next]_vars => EndsAsAllowed'
<1> SUFFICES ASSUME TypeOK, EndsAsAllowed, [Next]_vars PROVE EndsAsAllowed'
  OBVIOUS
<1> USE DEF TypeOK, EndsAsAllowed
<1>1. ASSUME NEW c \in Calls, CallVendor(c) \/ BudgetExpires(c) \/ CallerEnds(c)
      PROVE  EndsAsAllowed'
  BY <1>1 DEF CallVendor, BudgetExpires, CallerEnds
<1>2. ASSUME NEW c \in Calls, FailFast(c) \/ VendorAnswers(c) \/ ContextEnds(c) \/ Settle(c)
      PROVE  EndsAsAllowed'
  BY <1>2 DEF FailFast, VendorAnswers, ContextEnds, Settle, Returns
<1>3. CASE OpenTimeoutElapses \/ HealthChanges \/ UNCHANGED vars
  BY <1>3 DEF OpenTimeoutElapses, HealthChanges, vars
<1> QED
  BY <1>1, <1>2, <1>3 DEF Next

\* So the promise that callers do not trip a healthy vendor (guarded.go:68-71)
\* is true of callers that can only go away: what breaks it is a deadline of
\* their own, and nothing else.
THEOREM CallersThatOnlyLeaveNeverTrip ==
    ASSUME "callerDeadline" \notin CallerCuts
    PROVE  Spec => CallersNeverTrip
<1>1. Init => EndsAsAllowed
  BY DEF Init, EndsAsAllowed
<1>2. EndsAsAllowed => NoCallerDeadline
  BY DEF EndsAsAllowed, NoCallerDeadline
<1> QED
  BY <1>1, <1>2, NextEndsAsAllowed, TypeCorrect, HealthyIsNeverTripped, PTL
     DEF Spec, HealthyVendorNeverTripped, CallersNeverTrip
=============================================================================

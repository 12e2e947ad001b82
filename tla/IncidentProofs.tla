--------------------------- MODULE IncidentProofs ---------------------------
(* Proofs about Incident, for any vendors, latencies and budgets.          *)
EXTENDS Incident, TLAPS

(* The inductive invariant.                                                *)

\* Nothing is left undone at the moment it is due.
Timely ==
    /\ \A d \in Designs : /\ since[d] <= now /\ since[d] <= StageADeadline
                          /\ at[d] = "stageA" => now <= StageADeadline
    /\ \A d \in Designs, v \in Vendors :
         call[d][v] = "calling" => now <= AnswerTime(d, v) /\ now <= Deadline(d, v)

\* A design is in Stage B exactly while its bureau is being called.
Staged == \A d \in Designs : (at[d] = "stageB") <=> (call[d][Bureau] = "calling")

IInv == TypeOK /\ Timely /\ Staged

-----------------------------------------------------------------------------
(* The clock and the breaker's operators.                                  *)

\* The trip count Guard applies is a number.
LEMMA TripNat == trip \in Nat \ {0} /\ maxRequests \in Nat \ {0}
  BY TripAssumption, TrialsAssumption DEF trip, maxRequests

\* Budgets and latencies are natural numbers of ticks.
LEMMA TimesNat ==
    /\ SickLatency \in Nat /\ Budget \in Nat /\ StageABudget \in Nat
    /\ ProviderBudget \in Nat /\ OpenTimeout \in Nat \ {0}
    /\ \A v \in Vendors : Latency[v] \in Nat
  BY TimesAssumption

\* The Stage-A context is derived from the outer one.
LEMMA StageADeadlineType == StageADeadline \in Nat /\ StageADeadline <= Budget
  BY TimesNat DEF StageADeadline, Least

\* Both scorers count time from the submission, and no deadline is earlier
\* than the call or later than the outer budget.
LEMMA Times ==
    ASSUME TypeOK, Timely, NEW d \in Designs, NEW v \in Vendors
    PROVE  /\ Began(d, v) \in Nat /\ Began(d, v) <= now
           /\ AnswerTime(d, v) \in Nat /\ AnswerTime(d, v) >= Began(d, v)
           /\ Deadline(d, v) \in Nat /\ Deadline(d, v) <= Budget
           /\ Deadline(d, v) >= Began(d, v)
           /\ d = "guarded" => Deadline(d, v) <= Began(d, v) + ProviderBudget
           /\ v # Bureau => Deadline(d, v) <= StageADeadline
<1>1. Began(d, v) \in Nat /\ Began(d, v) <= now
  BY DEF Began, TypeOK, Timely
<1>2. AnswerTime(d, v) \in Nat /\ AnswerTime(d, v) >= Began(d, v)
  BY <1>1, TimesNat DEF AnswerTime
<1>3. /\ ContextDeadline(v) \in Nat /\ ContextDeadline(v) <= Budget
      /\ ContextDeadline(v) >= Began(d, v)
      /\ v # Bureau => ContextDeadline(v) <= StageADeadline
  BY StageADeadlineType, TimesNat DEF ContextDeadline, Began, Timely, TypeOK
<1> QED
  BY <1>1, <1>2, <1>3, TimesNat, StageADeadlineType DEF Deadline, Least

\* A breaker freshly in a state.
LEMMA NewGenerationType ==
    ASSUME NEW s \in BreakerState
    PROVE  /\ NewGeneration(s) \in Breaker /\ NewGeneration(s).state = s
           /\ NewGeneration(s).cooling <=> s = "open"
<1>1. (s = "open") \in BOOLEAN
  OBVIOUS
<1> QED
  BY <1>1 DEF NewGeneration, Breaker

\* Consulting a breaker opens none and starts no open timeout.
LEMMA CurrentStateType ==
    ASSUME NEW b \in Breaker
    PROVE  /\ CurrentState(b) \in Breaker
           /\ CurrentState(b).cooling <=> b.cooling
           /\ CurrentState(b).state = "open" => b.state = "open"
<1>1. CASE b.state = "open" /\ ~b.cooling
  BY <1>1, NewGenerationType DEF CurrentState, BreakerState
<1>2. CASE ~(b.state = "open" /\ ~b.cooling)
  BY <1>2 DEF CurrentState
<1> QED
  BY <1>1, <1>2

\* Admitting a call keeps a breaker's type, its state and its open timeout.
LEMMA OnRequestType ==
    ASSUME NEW b \in Breaker
    PROVE  /\ OnRequest(b, "call") \in Breaker
           /\ OnRequest(b, "call").cooling = b.cooling
           /\ OnRequest(b, "call").state = b.state
<1> DEFINE n == IF b.state = "half-open" THEN b.requests + 1 ELSE b.requests
<1>1. OnRequest(b, "call") = [[b EXCEPT !.live = b.live \cup {"call"}] EXCEPT !.requests = n]
  BY DEF OnRequest, Breaker
<1>2. n \in Nat /\ b.live \cup {"call"} \in SUBSET {"call"}
  BY DEF Breaker
<1> HIDE DEF n
<1> QED
  BY <1>1, <1>2 DEF Breaker

\* The result of a call opens a breaker only if it is a failure.
LEMMA AfterRequestType ==
    ASSUME NEW b0 \in Breaker, NEW e
    PROVE  /\ AfterRequest(b0, "call", e) \in Breaker
           /\ AfterRequest(b0, "call", e).state = "open" /\ b0.state # "open" => ~IsSuccessful(e)
<1> DEFINE b == CurrentState(b0)
           s == [b EXCEPT !.live = @ \ {"call"}]
<1>1. b \in Breaker /\ (b.state = "open" => b0.state = "open")
  BY CurrentStateType
<1>2. s \in Breaker /\ s.state = b.state
  BY <1>1 DEF Breaker
<1>3. /\ AfterRequest(b0, "call", e) \in {b, OnSuccess(s), OnFailure(s)}
      /\ IsSuccessful(e) => AfterRequest(b0, "call", e) \in {b, OnSuccess(s)}
  BY DEF AfterRequest
<1> HIDE DEF b, s
<1>4. OnSuccess(s) \in Breaker /\ (OnSuccess(s).state = "open" => s.state = "open")
  <2>1. CASE s.state = "half-open" /\ s.successes + 1 >= maxRequests
    BY <2>1, NewGenerationType DEF OnSuccess, BreakerState
  <2>2. CASE s.state = "half-open" /\ ~(s.successes + 1 >= maxRequests)
    BY <1>2, <2>2 DEF OnSuccess, Breaker
  <2>3. CASE s.state # "half-open"
    BY <1>2, <2>3 DEF OnSuccess, Breaker
  <2> QED
    BY <2>1, <2>2, <2>3
<1>5. OnFailure(s) \in Breaker
  <2>1. CASE s.state = "half-open" \/ ReadyToTrip(s.failures + 1)
    BY <2>1, NewGenerationType DEF OnFailure, BreakerState
  <2>2. CASE ~(s.state = "half-open" \/ ReadyToTrip(s.failures + 1))
    BY <1>2, <2>2 DEF OnFailure, Breaker
  <2> QED
    BY <2>1, <2>2
<1> QED
  BY <1>1, <1>2, <1>3, <1>4, <1>5

\* A Fetch that begins admits the call or ends it with a rejection at once,
\* and tells the recorder nothing that blames the vendor.
LEMMA FetchBegins ==
    ASSUME TypeOK, NEW v \in Vendors
    PROVE  /\ Fetching(v) \in CallState
           /\ (Fetching(v) = "calling") <=> Admitted(v)
           /\ Consulted(v) \in Breaker
           /\ Consulted(v).cooling <=> cb[v].cooling
           /\ Consulted(v).state = "open" => cb[v].state = "open"
           /\ ObservedAtOnce(v) \in [outcome : Outcome, latency : 0..ProviderBudget]
           /\ ObservedAtOnce(v).outcome \in {"none", "breaker_open"}
<1>1. cb[v] \in Breaker
  BY DEF TypeOK
<1>2. Fetching(v) \in {"calling", "ErrOpenState", "ErrTooManyRequests"}
  BY DEF Fetching, Rejection
<1>3. ~Admitted(v) => Fetching(v) \in {"ErrOpenState", "ErrTooManyRequests"}
  BY DEF Fetching, Rejection
<1>4. ObservedAtOnce(v) \in {[outcome |-> "none", latency |-> 0],
                            [outcome |-> "breaker_open", latency |-> 0]}
  BY <1>3 DEF ObservedAtOnce, NotObserved, Observation, classify
<1>5. 0 \in 0..ProviderBudget
  BY TimesNat
<1>6. /\ Consulted(v) \in Breaker
      /\ Consulted(v).cooling <=> cb[v].cooling
      /\ Consulted(v).state = "open" => cb[v].state = "open"
  <2>1. CurrentState(cb[v]) \in Breaker
    BY <1>1, CurrentStateType
  <2> QED
    BY <1>1, <2>1, CurrentStateType, OnRequestType DEF Consulted
<1> QED
  BY <1>2, <1>3, <1>4, <1>5, <1>6 DEF Fetching, CallState, Error, InnerError, Outcome

-----------------------------------------------------------------------------
(* The invariant.                                                          *)

\* Before the first application nothing is in progress.
LEMMA InitIInv == Init => IInv
<1> SUFFICES ASSUME Init PROVE IInv
  OBVIOUS
<1>1. /\ cb \in [Vendors -> Breaker]
      /\ \A v \in Vendors : cb[v].cooling <=> cooldown[v] > 0
  BY NewGenerationType DEF Init, BreakerState
<1>2. TypeOK
  BY <1>1, TimesNat, TripNat
     DEF Init, TypeOK, CallState, NotObserved, Outcome
<1>3. Timely /\ Staged
  BY StageADeadlineType DEF Init, Timely, Staged, Vendors
<1> QED
  BY <1>2, <1>3 DEF IInv

\* Submitting an application starts the clock and the calls of Stage A.
LEMMA SubmitIInv == IInv /\ Submit => IInv'
<1> SUFFICES ASSUME IInv, Submit PROVE IInv'
  OBVIOUS
<1>0. TypeOK
  BY DEF IInv
<1>1. /\ now' = 0 /\ at' = [d \in Designs |-> "stageA"] /\ since' = [d \in Designs |-> 0]
      /\ heard' = [d \in Designs |-> {}]
      /\ UNCHANGED <<health, cooldown, failures, quiet>>
  BY DEF Submit, historyVars
<1>2. /\ call' \in [Designs -> [Vendors -> CallState]]
      /\ \A d \in Designs : call'[d][Bureau] = "none"
  <2> DEFINE begun(d, v) == IF v = Bureau         THEN "none"
                            ELSE IF d = "guarded" THEN Fetching(v)
                            ELSE                       "calling"
  <2>1. \A d \in Designs, v \in Vendors : begun(d, v) \in CallState
    BY <1>0, FetchBegins DEF CallState
  <2>2. \A d \in Designs : begun(d, Bureau) = "none" /\ Bureau \in Vendors
    BY DEF Vendors
  <2>3. call' = [d \in Designs |-> [v \in Vendors |-> begun(d, v)]]
    BY DEF Submit
  <2> HIDE DEF begun
  <2> QED
    BY <2>1, <2>2, <2>3
<1>3. /\ cb' \in [Vendors -> Breaker]
      /\ \A v \in Vendors : cb'[v].cooling <=> cb[v].cooling
  BY <1>0, FetchBegins DEF Submit, TypeOK
<1>4. observed' \in [Vendors -> [outcome : Outcome, latency : 0..ProviderBudget]]
  BY <1>0, FetchBegins, TimesNat DEF Submit, NotObserved, Outcome
<1>5. TypeOK'
  BY <1>0, <1>1, <1>2, <1>3, <1>4, TimesNat DEF TypeOK
<1>6. Timely'
  <2>1. \A d \in Designs, v \in Vendors : Began(d, v)' = 0
    BY <1>1 DEF Began
  <2>2. \A d \in Designs, v \in Vendors : AnswerTime(d, v)' >= 0 /\ Deadline(d, v)' >= 0
    BY <1>1, <2>1, TimesNat, StageADeadlineType DEF AnswerTime, Deadline, ContextDeadline, Least
  <2> QED
    BY <1>1, <2>2, StageADeadlineType DEF Timely
<1>7. Staged'
  BY <1>1, <1>2 DEF Staged
<1> QED
  BY <1>5, <1>6, <1>7 DEF IInv

\* A call ends, with an error that the scorers know.
LEMMA SettleIInv ==
    ASSUME IInv, NEW d \in Designs, NEW v \in Vendors, NEW e \in InnerError,
           call[d][v] = "calling", Settle(d, v, e)
    PROVE  IInv'
<1>0. TypeOK /\ Timely /\ Staged
  BY DEF IInv
<1>1. /\ call' = [call EXCEPT ![d][v] = e]
      /\ at' = IF v = Bureau THEN [at EXCEPT ![d] = "answered"] ELSE at
      /\ UNCHANGED <<now, since, heard, health>>
  BY DEF Settle
<1>2. /\ call' \in [Designs -> [Vendors -> CallState]]
      /\ at' \in [Designs -> {"stageA", "stageB", "answered"}]
  BY <1>0, <1>1 DEF TypeOK, CallState, Error
<1>3. /\ cb' \in [Vendors -> Breaker]
      /\ cooldown' \in [Vendors -> 0..OpenTimeout]
      /\ \A u \in Vendors : cb'[u].cooling <=> cooldown'[u] > 0
  <2>1. CASE d = "guarded"
    <3> DEFINE b == AfterRequest(cb[v], "call", e)
    <3>1. b \in Breaker
      BY <1>0, AfterRequestType DEF TypeOK
    <3>2. /\ cb' = [cb EXCEPT ![v] = b]
          /\ cooldown' = [cooldown EXCEPT ![v] = IF b.cooling THEN OpenTimeout ELSE 0]
      BY <2>1 DEF Settle
    <3> HIDE DEF b
    <3>3. (IF b.cooling THEN OpenTimeout ELSE 0) \in 0..OpenTimeout
      BY TimesNat
    <3>4. b.cooling <=> (IF b.cooling THEN OpenTimeout ELSE 0) > 0
      BY TimesNat
    <3> QED
      BY <1>0, <3>1, <3>2, <3>3, <3>4 DEF TypeOK
  <2>2. CASE d # "guarded"
    BY <1>0, <2>2 DEF Settle, guardVars, TypeOK
  <2> QED
    BY <2>1, <2>2
<1>4. observed' \in [Vendors -> [outcome : Outcome, latency : 0..ProviderBudget]]
  <2>1. CASE d = "guarded"
    <3>1. now <= Began(d, v) + ProviderBudget /\ Began(d, v) <= now /\ Began(d, v) \in Nat
      BY <1>0, <2>1, Times, TimesNat DEF Timely, TypeOK
    <3>2. now - Began(d, v) \in 0..ProviderBudget
      BY <1>0, <3>1, TimesNat DEF TypeOK
    <3>3. classify(e) \in Outcome
      BY DEF classify, Outcome, InnerError
    <3>4. observed' = [observed EXCEPT ![v] = Observation(e, now - Began(d, v))]
      BY <2>1 DEF Settle
    <3> QED
      BY <1>0, <3>2, <3>3, <3>4 DEF TypeOK, Observation
  <2>2. CASE d # "guarded"
    BY <1>0, <2>2 DEF Settle, guardVars, TypeOK
  <2> QED
    BY <2>1, <2>2
<1>5. failures' \in [Vendors -> 0..trip] /\ quiet' \in [Vendors -> 0..OpenTimeout]
  <2>1. CASE d = "guarded"
    <3>1. (IF e = "nil" THEN 0 ELSE Least(failures[v] + 1, trip)) \in 0..trip
      BY <1>0, TripNat DEF TypeOK, Least
    <3>2. /\ failures' = [failures EXCEPT
                            ![v] = IF e = "nil" THEN 0 ELSE Least(failures[v] + 1, trip)]
          /\ quiet' = [quiet EXCEPT ![v] = 0]
      BY <2>1 DEF Settle
    <3> QED
      BY <1>0, <3>1, <3>2, TimesNat DEF TypeOK
  <2>2. CASE d # "guarded"
    BY <1>0, <2>2 DEF Settle, historyVars, TypeOK
  <2> QED
    BY <2>1, <2>2
<1>6. TypeOK'
  BY <1>0, <1>1, <1>2, <1>3, <1>4, <1>5 DEF TypeOK
<1>7. Timely'
  <2>1. \A c \in Designs, u \in Vendors : /\ call'[c][u] = "calling" => call[c][u] = "calling"
                                          /\ AnswerTime(c, u)' = AnswerTime(c, u)
                                          /\ Deadline(c, u)' = Deadline(c, u)
    BY <1>0, <1>1 DEF TypeOK, AnswerTime, Deadline, Began, InnerError
  <2>2. \A c \in Designs : at'[c] = "stageA" => at[c] = "stageA"
    BY <1>0, <1>1 DEF TypeOK
  <2> QED
    BY <1>0, <1>1, <2>1, <2>2 DEF Timely
<1>8. Staged'
  BY <1>0, <1>1 DEF Staged, TypeOK, InnerError, Vendors
<1> QED
  BY <1>6, <1>7, <1>8 DEF IInv

\* Stage A is over: the bureau is called, or kept from being called.
LEMMA CallDependentIInv ==
    ASSUME IInv, NEW d \in Designs, at[d] = "stageA", CallDependent(d),
           heard' \in [Designs -> SUBSET Independent]
    PROVE  IInv'
<1>0. TypeOK /\ Timely /\ Staged /\ Bureau \in Vendors
  BY DEF IInv, Vendors
<1>1. since' = [since EXCEPT ![d] = now] /\ UNCHANGED <<now, health, cooldown, failures, quiet>>
  BY DEF CallDependent, historyVars
<1>2. now \in Nat /\ now <= StageADeadline /\ call[d][Bureau] # "calling"
  BY <1>0 DEF Timely, Staged, TypeOK
<1>3. /\ at' \in [Designs -> {"stageA", "stageB", "answered"}]
      /\ at'[d] # "stageA"
      /\ \A c \in Designs : c # d => at'[c] = at[c]
  BY <1>0 DEF CallDependent, TypeOK
<1>4. PICK f \in CallState : /\ call' = [call EXCEPT ![d][Bureau] = f]
                             /\ (f = "calling") <=> (at'[d] = "stageB")
  <2>1. CASE d = "guarded"
    BY <1>0, <2>1, FetchBegins DEF CallDependent, TypeOK
  <2>2. CASE d # "guarded"
    BY <1>0, <2>2 DEF CallDependent, TypeOK, CallState
  <2> QED
    BY <2>1, <2>2
<1>5. /\ call' \in [Designs -> [Vendors -> CallState]]
      /\ call'[d][Bureau] = f
      /\ \A c \in Designs, v \in Vendors :
           ~(c = d /\ v = Bureau) => call'[c][v] = call[c][v]
  <2>1. call \in [Designs -> [Vendors -> CallState]] /\ Bureau \in Vendors
    BY <1>0 DEF TypeOK
  <2> DEFINE g == [call[d] EXCEPT ![Bureau] = f]
  <2>2. g \in [Vendors -> CallState] /\ g[Bureau] = f /\ \A v \in Vendors : v # Bureau => g[v] = call[d][v]
    BY <2>1
  <2>3. call' = [call EXCEPT ![d] = g]
    BY <1>4
  <2> HIDE DEF g
  <2> QED
    BY <2>1, <2>2, <2>3
<1>6. /\ cb' \in [Vendors -> Breaker]
      /\ \A v \in Vendors : cb'[v].cooling <=> cb[v].cooling
      /\ observed' \in [Vendors -> [outcome : Outcome, latency : 0..ProviderBudget]]
  <2>1. CASE d = "guarded"
    <3>1. /\ cb' = [cb EXCEPT ![Bureau] = Consulted(Bureau)]
          /\ observed' = [observed EXCEPT ![Bureau] = ObservedAtOnce(Bureau)]
      BY <2>1 DEF CallDependent
    <3>2. /\ Consulted(Bureau) \in Breaker
          /\ Consulted(Bureau).cooling <=> cb[Bureau].cooling
          /\ ObservedAtOnce(Bureau) \in [outcome : Outcome, latency : 0..ProviderBudget]
      BY <1>0, FetchBegins
    <3> QED
      BY <1>0, <3>1, <3>2 DEF TypeOK
  <2>2. CASE d # "guarded"
    BY <1>0, <2>2 DEF CallDependent, TypeOK
  <2> QED
    BY <2>1, <2>2
<1>7. TypeOK'
  <2>1. since' \in [Designs -> 0..Budget]
    BY <1>0, <1>1 DEF TypeOK
  <2> QED
    BY <1>0, <1>1, <1>3, <1>6, <1>5, <2>1 DEF TypeOK
<1>8. Timely'
  <2>1. ASSUME NEW c \in Designs
        PROVE  /\ since'[c] <= now' /\ since'[c] <= StageADeadline
               /\ at'[c] = "stageA" => now' <= StageADeadline
    BY <1>0, <1>1, <1>2, <1>3 DEF Timely, TypeOK
  <2>2. ASSUME NEW c \in Designs, NEW v \in Vendors, call'[c][v] = "calling"
        PROVE  now' <= AnswerTime(c, v)' /\ now' <= Deadline(c, v)'
    <3>1. CASE c = d /\ v = Bureau
      <4>1. Began(c, v)' = now
        BY <1>0, <1>1, <3>1 DEF Began, TypeOK
      <4> QED
        BY <1>1, <1>2, <4>1, <3>1, StageADeadlineType, TimesNat
           DEF AnswerTime, Deadline, ContextDeadline, Least
    <3>2. CASE ~(c = d /\ v = Bureau)
      <4>1. call[c][v] = "calling"
        BY <1>5, <2>2, <3>2
      <4>2. Began(c, v)' = Began(c, v)
        BY <1>0, <1>1, <3>2 DEF Began, TypeOK
      <4> QED
        BY <1>0, <1>1, <4>1, <4>2 DEF Timely, AnswerTime, Deadline
    <3> QED
      BY <3>1, <3>2
  <2> QED
    BY <2>1, <2>2 DEF Timely
<1>9. Staged'
  <2>1. ASSUME NEW c \in Designs
        PROVE  (at'[c] = "stageB") <=> (call'[c][Bureau] = "calling")
    <3>1. CASE c = d
      BY <1>4, <1>5, <3>1
    <3>2. CASE c # d
      BY <1>0, <1>3, <1>5, <3>2 DEF Staged
    <3> QED
      BY <3>1, <3>2
  <2> QED
    BY <2>1 DEF Staged
<1> QED
  BY <1>7, <1>8, <1>9 DEF IInv

\* A fan-in takes a resolution, or gives up at its deadline.
LEMMA FanInIInv ==
    ASSUME IInv, NEW d \in Designs, Receive(d) \/ StopWaiting(d)
    PROVE  IInv'
<1>0. TypeOK /\ Timely /\ Staged /\ at[d] = "stageA"
  BY DEF IInv, Receive, StopWaiting
<1>1. heard' \in [Designs -> SUBSET Independent]
  BY <1>0 DEF Receive, StopWaiting, Sent, TypeOK
<1>2. CASE CallDependent(d)
  BY <1>0, <1>1, <1>2, CallDependentIInv
<1>3. CASE UNCHANGED <<now, at, since, call, health, guardVars, historyVars>>
  <2>1. TypeOK'
    BY <1>0, <1>1, <1>3 DEF TypeOK, guardVars, historyVars
  <2>2. Timely' /\ Staged'
    BY <1>0, <1>3 DEF Timely, Staged, AnswerTime, Deadline, Began
  <2> QED
    BY <2>1, <2>2 DEF IInv
<1> QED
  BY <1>2, <1>3 DEF Receive, StopWaiting

\* As long as anything is in progress, the time that passes is time in which
\* nothing was due.
LEMMA TickTimely == TypeOK /\ Timely /\ Staged /\ Tick => now' \in 0..Budget /\ Timely'
<1> SUFFICES ASSUME TypeOK, Timely, Staged, Tick PROVE now' \in 0..Budget /\ Timely'
  OBVIOUS
<1>0. /\ UNCHANGED <<at, since, call, health>> /\ ~Due
      /\ now' = IF Idle THEN now ELSE now + 1
      /\ now \in Nat /\ now <= Budget /\ Budget \in Nat
  BY TimesNat DEF Tick, TypeOK
<1>1. \A d \in Designs : at[d] = "stageA" => now < StageADeadline
  BY <1>0, StageADeadlineType DEF Due
<1>2. \A d \in Designs, v \in Vendors :
        call[d][v] = "calling" => now < AnswerTime(d, v) /\ now < Deadline(d, v)
  <2>1. ASSUME NEW d \in Designs, NEW v \in Vendors, call[d][v] = "calling"
        PROVE  now < AnswerTime(d, v) /\ now < Deadline(d, v)
    <3>1. ~(now >= Least(AnswerTime(d, v), Deadline(d, v)))
      BY <1>0, <2>1 DEF Due
    <3> QED
      BY <1>0, <3>1, Times DEF Least
  <2> QED
    BY <2>1
<1>3. CASE Idle
  BY <1>0, <1>3 DEF Timely, AnswerTime, Deadline, Began
<1>4. CASE ~Idle
  <2>1. now + 1 <= Budget
    <3>1. CASE \E d \in Designs, v \in Vendors : call[d][v] = "calling"
      BY <1>0, <1>2, <3>1, Times
    <3>2. CASE \A d \in Designs, v \in Vendors : call[d][v] # "calling"
      <4>1. PICK d \in Designs : at[d] # "answered"
        BY <1>4, <3>2 DEF Idle
      <4>2. at[d] = "stageA"
        BY <3>2, <4>1 DEF Staged, TypeOK, Vendors
      <4> QED
        BY <1>0, <1>1, <4>2, StageADeadlineType
    <3> QED
      BY <3>1, <3>2
  <2>2. \A d \in Designs : /\ since'[d] <= now' /\ since'[d] <= StageADeadline
                           /\ at'[d] = "stageA" => now' <= StageADeadline
    BY <1>0, <1>1, <1>4, StageADeadlineType DEF Timely, TypeOK
  <2>3. \A d \in Designs, v \in Vendors :
          call'[d][v] = "calling" => now' <= AnswerTime(d, v)' /\ now' <= Deadline(d, v)'
    <3>1. \A d \in Designs, v \in Vendors : /\ AnswerTime(d, v)' = AnswerTime(d, v)
                                            /\ Deadline(d, v)' = Deadline(d, v)
      BY <1>0 DEF AnswerTime, Deadline, Began
    <3> QED
      BY <1>0, <1>2, <1>4, <3>1, Times
  <2> QED
    BY <1>0, <1>4, <2>1, <2>2, <2>3 DEF Timely
<1> QED
  BY <1>3, <1>4

\* Time passes without passing anything due.
LEMMA TickIInv == IInv /\ Tick => IInv'
<1> SUFFICES ASSUME IInv, Tick PROVE IInv'
  OBVIOUS
<1>0. TypeOK /\ Timely /\ Staged /\ UNCHANGED <<at, since, heard, call, health, observed, failures>>
  BY DEF IInv, Tick
<1>1. now' \in 0..Budget /\ Timely'
  BY <1>0, TickTimely
<1>2. cooldown' \in [Vendors -> 0..OpenTimeout]
  BY <1>0, TimesNat DEF Tick, TypeOK
<1>3. /\ cb' \in [Vendors -> Breaker]
      /\ \A v \in Vendors : cb'[v].cooling <=> cooldown'[v] > 0
  <2>1. \A v \in Vendors : cb[v] \in Breaker /\ (cooldown'[v] > 0) \in BOOLEAN
    BY <1>0 DEF TypeOK
  <2>2. cb' = [v \in Vendors |-> [cb[v] EXCEPT !.cooling = (cooldown'[v] > 0)]]
    BY DEF Tick
  <2>3. ASSUME NEW v \in Vendors
        PROVE  /\ [cb[v] EXCEPT !.cooling = (cooldown'[v] > 0)] \in Breaker
               /\ [cb[v] EXCEPT !.cooling = (cooldown'[v] > 0)].cooling = (cooldown'[v] > 0)
    BY <2>1 DEF Breaker
  <2> QED
    BY <2>2, <2>3
<1>4. quiet' \in [Vendors -> 0..OpenTimeout]
  BY <1>0, TimesNat DEF Tick, TypeOK, Least
<1>5. TypeOK'
  BY <1>0, <1>1, <1>2, <1>3, <1>4 DEF TypeOK
<1>6. Staged'
  BY <1>0 DEF Staged
<1> QED
  BY <1>1, <1>5, <1>6 DEF IInv

\* A vendor's health changes only while no call is in progress.
LEMMA HealthIInv == IInv /\ (\E v \in Vendors : HealthChanges(v)) => IInv'
<1> SUFFICES ASSUME IInv, NEW v \in Vendors, HealthChanges(v) PROVE IInv'
  OBVIOUS
<1>0. TypeOK /\ Timely /\ Staged
  BY DEF IInv
<1>1. /\ health' \in [Vendors -> Health]
      /\ UNCHANGED <<now, at, since, heard, call, cb, cooldown, observed, failures, quiet>>
      /\ \A d \in Designs : /\ at[d] = "answered"
                            /\ \A u \in Vendors : call[d][u] # "calling"
  BY <1>0 DEF HealthChanges, Idle, TypeOK, guardVars, historyVars
<1>2. TypeOK'
  BY <1>0, <1>1 DEF TypeOK
<1>3. Timely' /\ Staged'
  BY <1>0, <1>1 DEF Timely, Staged
<1> QED
  BY <1>2, <1>3 DEF IInv

\* The invariant is preserved by every step.
LEMMA NextIInv == IInv /\ [Next]_vars => IInv'
<1> SUFFICES ASSUME IInv, [Next]_vars PROVE IInv'
  OBVIOUS
<1>1. ASSUME NEW d \in Designs, NEW v \in Vendors, VendorAnswers(d, v) \/ TimesOut(d, v)
      PROVE  IInv'
  <2>1. PICK e \in InnerError : call[d][v] = "calling" /\ Settle(d, v, e)
    BY <1>1 DEF VendorAnswers, TimesOut, InnerError
  <2> QED
    BY <2>1, SettleIInv
<1>2. ASSUME NEW d \in Designs, Receive(d) \/ StopWaiting(d) PROVE IInv'
  BY <1>2, FanInIInv
<1>3. CASE UNCHANGED vars
  BY <1>3 DEF vars, guardVars, historyVars, IInv, TypeOK, Timely, Staged, AnswerTime, Deadline, Began
<1> QED
  BY <1>1, <1>2, <1>3, SubmitIInv, TickIInv, HealthIInv DEF Next, Work

\* The invariant holds in every state.
THEOREM Invariance == Spec => []IInv
  BY InitIInv, NextIInv, PTL DEF Spec

\* Type correctness: whatever the vendors do, both designs have answered when
\* the outer budget has passed, and no latency beyond the guard's budget is
\* ever recorded (pipeline.go:16-17, guarded.go:108-114).
THEOREM TypeCorrect == Spec => []TypeOK
<1>1. IInv => TypeOK
  BY DEF IInv
<1> QED
  BY <1>1, Invariance, PTL

\* An alarm on recorded latencies above the guard's budget or more never goes
\* off, however long a vendor is sick (SickVendorPages; guarded.go:108-114,
\* emf.go:14-16).
THEOREM AlarmSilent ==
    ASSUME AlarmThreshold >= ProviderBudget
    PROVE  Spec => [](\A v \in Vendors : ~(observed[v].latency > AlarmThreshold))
<1>1. TypeOK => \A v \in Vendors : ~(observed[v].latency > AlarmThreshold)
  <2>1. AlarmThreshold \in Nat
    BY TimesAssumption
  <2> QED
    BY <2>1, TimesNat DEF TypeOK
<1> QED
  BY <1>1, TypeCorrect, PTL

-----------------------------------------------------------------------------
(* Only the sick are blamed.                                               *)

\* The budgets leave every vendor that is well the time it needs, the bureau
\* even after a Stage A that used all of its own (pipeline.go:18-20).
BudgetsSuffice ==
    /\ \A v \in Independent : Latency[v] < StageADeadline /\ Latency[v] < ProviderBudget
    /\ Latency[Bureau] < ProviderBudget /\ StageADeadline + Latency[Bureau] < Budget

\* Then a guarded vendor that is well answers before any deadline.
LEMMA WellInTime ==
    ASSUME BudgetsSuffice, IInv, NEW v \in Vendors, health[v] = "well",
           call["guarded"][v] = "calling"
    PROVE  now < Deadline("guarded", v)
<1>0. /\ TypeOK /\ Timely /\ "guarded" \in Designs
      /\ now <= AnswerTime("guarded", v) /\ AnswerTime("guarded", v) \in Nat
  BY Times DEF IInv, Timely, Designs
<1>1. AnswerTime("guarded", v) = Began("guarded", v) + Latency[v]
  BY DEF AnswerTime
<1>2. Began("guarded", v) + Latency[v] < Began("guarded", v) + ProviderBudget
  BY <1>0, Times, TimesNat DEF BudgetsSuffice, Vendors
<1>3. Began("guarded", v) + Latency[v] < ContextDeadline(v)
  <2>1. CASE v = Bureau
    <3>1. since["guarded"] \in Nat /\ since["guarded"] <= StageADeadline
      BY <1>0 DEF TypeOK, Timely
    <3> QED
      BY <2>1, <3>1, StageADeadlineType, TimesNat
         DEF Began, ContextDeadline, BudgetsSuffice, Vendors
  <2>2. CASE v # Bureau
    BY <2>2, TimesNat DEF Began, ContextDeadline, BudgetsSuffice, Vendors
  <2> QED
    BY <2>1, <2>2
<1>4. now \in Nat /\ Deadline("guarded", v) \in Nat
  BY <1>0, Times DEF TypeOK
<1>5. Deadline("guarded", v) \in {ContextDeadline(v), Began("guarded", v) + ProviderBudget}
  BY DEF Deadline, Least
<1> QED
  BY <1>0, <1>1, <1>2, <1>3, <1>4, <1>5

\* Until a call ends, nothing counts against any vendor.
LEMMA BeginningsBlameless ==
    ASSUME IInv, NEW v \in Vendors,
           Submit \/ \E d \in Designs : CallDependent(d)
    PROVE  ~Blames(v)
<1>0. TypeOK /\ Bureau \in Vendors
  BY DEF IInv, Vendors
<1>1. /\ cb'[v].state = "open" => cb[v].state = "open"
      /\ observed'[v] = observed[v] \/ observed'[v].outcome \in {"none", "breaker_open"}
  <2>1. CASE Submit
    BY <1>0, <2>1, FetchBegins DEF Submit, NotObserved
  <2>2. ASSUME NEW d \in Designs, CallDependent(d)
        PROVE  /\ cb'[v].state = "open" => cb[v].state = "open"
               /\ observed'[v] = observed[v] \/ observed'[v].outcome \in {"none", "breaker_open"}
    BY <1>0, <2>2, FetchBegins DEF CallDependent, TypeOK
  <2> QED
    BY <2>1, <2>2
<1> QED
  BY <1>1 DEF Blames

\* When a call ends, only a failure counts, and only against its vendor.
LEMMA SettleBlames ==
    ASSUME IInv, NEW d \in Designs, NEW u \in Vendors, NEW e, Settle(d, u, e),
           NEW v \in Vendors, Blames(v)
    PROVE  d = "guarded" /\ u = v /\ e # "nil"
<1>0. TypeOK
  BY DEF IInv
<1>1. d = "guarded"
  BY DEF Settle, guardVars, Blames
<1>2. /\ cb' = [cb EXCEPT ![u] = AfterRequest(cb[u], "call", e)]
      /\ observed' = [observed EXCEPT ![u] = Observation(e, now - Began(d, u))]
  BY <1>1 DEF Settle
<1>3. u = v
  BY <1>0, <1>2 DEF Blames, TypeOK
<1>4. ASSUME e = "nil" PROVE FALSE
  <2>1. observed'[v].outcome = "success"
    BY <1>0, <1>2, <1>3, <1>4 DEF TypeOK, Observation, classify
  <2>2. cb'[v].state = "open" => cb[v].state = "open"
    BY <1>0, <1>2, <1>3, <1>4, AfterRequestType DEF TypeOK, IsSuccessful
  <2> QED
    BY <2>1, <2>2 DEF Blames
<1> QED
  BY <1>1, <1>3, <1>4

\* Nothing is held against a vendor that is well, if the budgets leave it the
\* time it needs (guarded.go:88-90, pipeline.go:18-20).
THEOREM OnlySickAreBlamed ==
    ASSUME BudgetsSuffice
    PROVE  Spec => OnlySickBlamed
<1>1. ASSUME IInv, [Next]_vars, NEW v \in Vendors, Blames(v) PROVE health[v] # "well"
  <2>0. TypeOK
    BY <1>1 DEF IInv
  <2>1. ASSUME NEW d \in Designs, NEW u \in Vendors, VendorAnswers(d, u)
        PROVE  health[v] # "well"
    BY <1>1, <2>1, SettleBlames DEF VendorAnswers
  <2>2. ASSUME NEW d \in Designs, NEW u \in Vendors, TimesOut(d, u)
        PROVE  health[v] # "well"
    <3>1. d = "guarded" /\ u = v
      BY <1>1, <2>2, SettleBlames DEF TimesOut
    <3>2. call["guarded"][v] = "calling" /\ now >= Deadline("guarded", v)
      BY <2>2, <3>1 DEF TimesOut
    <3>3. now \in Nat /\ Deadline("guarded", v) \in Nat
      BY <1>1, <2>0, Times DEF IInv, TypeOK, Designs
    <3> QED
      BY <1>1, <3>2, <3>3, WellInTime
  <2>3. ASSUME UNCHANGED <<cb, observed>> PROVE FALSE
    BY <1>1, <2>3 DEF Blames
  <2>4. ASSUME NEW d \in Designs, Receive(d) \/ StopWaiting(d) PROVE FALSE
    <3>1. CallDependent(d) \/ UNCHANGED <<cb, observed>>
      BY <2>4 DEF Receive, StopWaiting, guardVars
    <3> QED
      BY <1>1, <2>3, <3>1, BeginningsBlameless
  <2>5. ASSUME Submit PROVE FALSE
    BY <1>1, <2>5, BeginningsBlameless
  <2>6. ASSUME Tick PROVE FALSE
    <3>1. observed' = observed /\ cb'[v].state = cb[v].state
      BY <2>0, <2>6 DEF Tick, TypeOK, Breaker
    <3> QED
      BY <1>1, <3>1 DEF Blames
  <2>7. ASSUME UNCHANGED vars \/ \E u \in Vendors : HealthChanges(u) PROVE FALSE
    BY <2>3, <2>7 DEF vars, HealthChanges, guardVars
  <2> QED
    BY <1>1, <2>1, <2>2, <2>4, <2>5, <2>6, <2>7 DEF Next, Work
<1>2. IInv /\ [Next]_vars => [\A v \in Vendors : Blames(v) => health[v] # "well"]_vars
  BY <1>1
<1> QED
  BY <1>2, Invariance, PTL DEF Spec, OnlySickBlamed

-----------------------------------------------------------------------------
(* The naive design is pinned to the deadline.                             *)

\* While the naive fan-in waits, it has heard only successes, and only
\* vendors that are well have had the time to succeed.
NaiveInv ==
    at["naive"] = "stageA" =>
        /\ \A v \in heard["naive"] : call["naive"][v] = "nil"
        /\ \A v \in Independent : call["naive"][v] = "nil" => health[v] = "well"

\* A call that ends leaves it so, if slow vendors miss the deadline.
LEMMA SettleNaiveInv ==
    ASSUME SickLatency > StageADeadline, IInv, NaiveInv,
           NEW d \in Designs, NEW v \in Vendors, VendorAnswers(d, v) \/ TimesOut(d, v)
    PROVE  NaiveInv'
<1>0. TypeOK /\ Timely /\ "naive" \in Designs
  BY DEF IInv, Designs
<1>1. PICK e \in InnerError :
        /\ call[d][v] = "calling" /\ Settle(d, v, e)
        /\ e = "nil" => now >= AnswerTime(d, v) /\ health[v] # "failing"
  BY DEF VendorAnswers, TimesOut, InnerError
<1>2. /\ call' = [call EXCEPT ![d][v] = e]
      /\ at' = IF v = Bureau THEN [at EXCEPT ![d] = "answered"] ELSE at
      /\ UNCHANGED <<now, heard, health>>
  BY <1>1 DEF Settle
<1> SUFFICES ASSUME at'["naive"] = "stageA" PROVE NaiveInv'
  BY DEF NaiveInv
<1>3. at["naive"] = "stageA"
  BY <1>0, <1>2 DEF TypeOK
<1>4. CASE d # "naive"
  BY <1>0, <1>2, <1>3, <1>4 DEF NaiveInv, TypeOK
<1>5. CASE d = "naive"
  <2>1. \A u \in heard'["naive"] : call'["naive"][u] = "nil"
    BY <1>0, <1>1, <1>2, <1>3, <1>5 DEF NaiveInv, TypeOK, Vendors
  <2>2. ASSUME e = "nil", v \in Independent PROVE health[v] = "well"
    <3>1. now <= StageADeadline /\ now \in Nat
      BY <1>0, <1>3 DEF Timely, TypeOK
    <3>2. health[v] = "slow" => AnswerTime(d, v) = SickLatency
      BY <2>2, VendorsAssumption, TimesNat DEF AnswerTime, Began
    <3> QED
      BY <1>0, <1>1, <2>2, <3>1, <3>2, StageADeadlineType, TimesNat DEF TypeOK, Health
  <2>3. ASSUME NEW u \in Independent, call'["naive"][u] = "nil" PROVE health'[u] = "well"
    BY <1>0, <1>2, <1>3, <1>5, <2>2, <2>3 DEF NaiveInv, TypeOK, Vendors
  <2> QED
    BY <2>1, <2>3 DEF NaiveInv
<1> QED
  BY <1>4, <1>5

\* And so does every step.
LEMMA NextNaiveInv ==
    ASSUME SickLatency > StageADeadline, IInv, NaiveInv, [Next]_vars
    PROVE  NaiveInv'
<1>0. TypeOK /\ "naive" \in Designs /\ Bureau \notin Independent
  BY VendorsAssumption DEF IInv, Designs
<1>1. ASSUME NEW d \in Designs, Receive(d) \/ StopWaiting(d) PROVE NaiveInv'
  <2>1. CASE CallDependent(d)
    <3>1. at'["naive"] = "stageA" => d = "guarded"
      BY <1>0, <2>1 DEF CallDependent, TypeOK, Designs
    <3>2. CASE d = "guarded"
      <4>1. call'["naive"] = call["naive"] /\ at'["naive"] = at["naive"] /\ health' = health
        BY <1>0, <2>1, <3>2 DEF CallDependent, TypeOK
      <4>2. heard'["naive"] = heard["naive"]
        BY <1>0, <1>1, <3>2 DEF Receive, StopWaiting, TypeOK
      <4> QED
        BY <4>1, <4>2 DEF NaiveInv
    <3> QED
      BY <3>1, <3>2 DEF NaiveInv
  <2>2. CASE ~CallDependent(d)
    <3>1. PICK v \in Sent(d) \ heard[d] : heard' = [heard EXCEPT ![d] = @ \cup {v}]
      BY <1>1, <2>2 DEF Receive, StopWaiting
    <3>2. UNCHANGED <<at, call, health>>
      BY <1>1, <2>2 DEF Receive, StopWaiting
    <3>3. d = "naive" => call["naive"][v] = "nil"
      BY <3>1 DEF Sent
    <3> QED
      BY <1>0, <3>1, <3>2, <3>3 DEF NaiveInv, TypeOK
  <2> QED
    BY <2>1, <2>2
<1>2. CASE Submit
  <2>1. heard'["naive"] = {} /\ \A v \in Independent : call'["naive"][v] = "calling"
    BY <1>0, <1>2 DEF Submit, Vendors
  <2> QED
    BY <2>1 DEF NaiveInv
<1>3. CASE Tick \/ UNCHANGED vars
  BY <1>3 DEF Tick, vars, NaiveInv
<1>4. ASSUME NEW v \in Vendors, HealthChanges(v) PROVE NaiveInv'
  BY <1>0, <1>4 DEF HealthChanges, Idle, NaiveInv
<1> QED
  BY <1>1, <1>2, <1>3, <1>4, SettleNaiveInv DEF Next, Work

\* With an independent vendor that is not well, the naive design leaves Stage
\* A at the shared deadline and at no other moment, provided that slow means
\* slower than the deadline (naive.go:14-26).
THEOREM NaiveIsPinned ==
    ASSUME SickLatency > StageADeadline
    PROVE  Spec => NaivePinned
<1>1. Init => NaiveInv
  BY DEF Init, NaiveInv, Designs
<1>2. IInv /\ NaiveInv /\ [Next]_vars => NaiveInv'
  BY NextNaiveInv
<1>3. ASSUME IInv, NaiveInv, [Next]_vars,
             at["naive"] = "stageA", at'["naive"] # "stageA",
             NEW v \in Independent, health[v] # "well"
      PROVE  now = StageADeadline
  <2>0. TypeOK /\ now \in Nat /\ now <= StageADeadline /\ "naive" \in Designs
    BY <1>3 DEF IInv, TypeOK, Timely, Designs
  <2>1. ASSUME NEW d \in Designs, Receive(d) PROVE FALSE
    <3>1. CallDependent(d) /\ heard'[d] = Independent
      BY <1>3, <2>1 DEF Receive
    <3>2. d = "naive"
      BY <1>3, <2>0, <3>1 DEF CallDependent, TypeOK
    <3>3. \A u \in heard'["naive"] : call["naive"][u] = "nil"
      BY <1>3, <2>0, <2>1, <3>2 DEF Receive, Sent, NaiveInv, TypeOK
    <3> QED
      BY <1>3, <3>1, <3>2, <3>3 DEF NaiveInv
  <2>2. ASSUME NEW d \in Designs, StopWaiting(d) PROVE now = StageADeadline
    <3>1. now >= StageADeadline
      BY <2>2 DEF StopWaiting
    <3> QED
      BY <2>0, <3>1, StageADeadlineType
  <2>3. ASSUME NEW d \in Designs, NEW u \in Vendors, VendorAnswers(d, u) \/ TimesOut(d, u)
        PROVE  FALSE
    <3>1. PICK e : Settle(d, u, e) /\ call[d][u] = "calling"
      BY <2>3 DEF VendorAnswers, TimesOut
    <3>2. d = "naive" /\ u = Bureau
      BY <1>3, <2>0, <3>1 DEF Settle, TypeOK
    <3> QED
      BY <1>3, <3>1, <3>2, <2>0 DEF IInv, Staged
  <2>4. ~Submit /\ ~Tick /\ ~UNCHANGED vars /\ ~\E u \in Vendors : HealthChanges(u)
    BY <1>3, <2>0 DEF Submit, Tick, vars, HealthChanges, Idle
  <2> QED
    BY <1>3, <2>1, <2>2, <2>3, <2>4 DEF Next, Work
<1>4. IInv /\ NaiveInv /\ [Next]_vars =>
        [ /\ at["naive"] = "stageA" /\ at'["naive"] # "stageA"
          /\ \E v \in Independent : health[v] # "well"
          => now = StageADeadline ]_vars
  BY <1>3
<1> QED
  BY <1>1, <1>2, <1>4, Invariance, PTL DEF Spec, NaivePinned

-----------------------------------------------------------------------------
(* The guarded design is never slower.                                     *)

\* What one design has done tells how far the other one is.
RaceInv ==
    \* A vendor that has answered the naive design owes the guarded one.
    /\ \A v \in Independent :
         call["naive"][v] = "nil" /\ call["guarded"][v] = "calling"
           => now >= AnswerTime("guarded", v)
    /\ at["naive"] = "stageA" => \A v \in heard["naive"] : call["naive"][v] = "nil"
    /\ at["guarded"] = "stageA" => heard["guarded"] # Independent
    \* The naive fan-in has ended: for lack of time, or because it heard all.
    /\ at["naive"] # "stageA" /\ at["guarded"] = "stageA" =>
         /\ now >= StageADeadline \/ \A v \in Independent : call["naive"][v] = "nil"
         /\ since["naive"] = now
    /\ at["naive"] # "stageA" /\ at["guarded"] # "stageA" => since["guarded"] <= since["naive"]
    \* The naive bureau has answered, or the budget is gone.
    /\ at["naive"] = "answered" /\ at["guarded"] # "answered" =>
         now >= AnswerTime("naive", Bureau) \/ now >= Budget

\* While the naive fan-in has ended and the guarded one has not, something is
\* due, so that no time passes.
LEMMA BehindIsDue ==
    ASSUME IInv, RaceInv, at["naive"] # "stageA", at["guarded"] = "stageA", ~Due
    PROVE  FALSE
<1>0. TypeOK /\ Timely /\ "guarded" \in Designs /\ "naive" \in Designs
  BY DEF IInv, Designs
<1>1. Sent("guarded") \subseteq heard["guarded"] /\ ~(now >= StageADeadline)
  BY <1>0 DEF Due
<1>2. \A v \in Independent : call["naive"][v] = "nil"
  BY <1>1 DEF RaceInv
<1>3. PICK v \in Independent : v \notin heard["guarded"]
  BY <1>0 DEF RaceInv, TypeOK
<1>4. call["guarded"][v] = "calling" /\ v \in Vendors
  BY <1>1, <1>3 DEF Sent, Vendors
<1>5. now >= AnswerTime("guarded", v)
  BY <1>2, <1>4 DEF RaceInv
<1>6. ~(now >= Least(AnswerTime("guarded", v), Deadline("guarded", v)))
  BY <1>0, <1>4 DEF Due
<1>7. /\ now \in Nat /\ AnswerTime("guarded", v) \in Nat /\ Deadline("guarded", v) \in Nat
  BY <1>0, <1>4, Times DEF TypeOK
<1> QED
  BY <1>5, <1>6, <1>7 DEF Least

\* Nor while the naive design has answered and the guarded one has not.
LEMMA BehindInStageBIsDue ==
    ASSUME IInv, RaceInv, at["naive"] = "answered", at["guarded"] # "answered", ~Due
    PROVE  FALSE
<1>0. /\ TypeOK /\ Timely /\ Staged /\ "guarded" \in Designs /\ "naive" \in Designs
      /\ Bureau \in Vendors
  BY DEF IInv, Designs, Vendors
<1>1. at["guarded"] = "stageB"
  BY <1>0, BehindIsDue DEF TypeOK
<1>2. call["guarded"][Bureau] = "calling"
  BY <1>0, <1>1 DEF Staged
<1>3. /\ now \in Nat /\ since["guarded"] \in Nat /\ since["naive"] \in Nat
      /\ since["guarded"] <= since["naive"]
  BY <1>0, <1>1 DEF RaceInv, TypeOK
<1>4. AnswerTime("guarded", Bureau) <= AnswerTime("naive", Bureau)
  BY <1>0, <1>3, TimesNat DEF AnswerTime, Began
<1>5. /\ AnswerTime("guarded", Bureau) \in Nat /\ AnswerTime("naive", Bureau) \in Nat
      /\ Deadline("guarded", Bureau) \in Nat /\ Deadline("guarded", Bureau) <= Budget
  BY <1>0, Times
<1>6. now >= AnswerTime("guarded", Bureau) \/ now >= Deadline("guarded", Bureau)
  BY <1>1, <1>3, <1>4, <1>5, TimesNat DEF RaceInv
<1> QED
  BY <1>0, <1>2, <1>3, <1>5, <1>6 DEF Due, Least

\* A call that ends keeps the race in order.
LEMMA SettleRaceInv ==
    ASSUME IInv, RaceInv,
           NEW d \in Designs, NEW v \in Vendors, VendorAnswers(d, v) \/ TimesOut(d, v)
    PROVE  RaceInv'
<1>0. /\ TypeOK /\ Timely /\ Staged /\ "naive" \in Designs /\ "guarded" \in Designs
      /\ Bureau \in Vendors /\ Bureau \notin Independent
  BY VendorsAssumption DEF IInv, Designs, Vendors
<1>1. PICK e \in InnerError :
        /\ call[d][v] = "calling" /\ Settle(d, v, e)
        /\ now >= AnswerTime(d, v) \/ (e # "nil" /\ now >= Deadline(d, v))
  BY DEF VendorAnswers, TimesOut, InnerError
<1>2. /\ call' = [call EXCEPT ![d][v] = e]
      /\ at' = IF v = Bureau THEN [at EXCEPT ![d] = "answered"] ELSE at
      /\ UNCHANGED <<now, since, heard, health>>
  BY <1>1 DEF Settle
<1>3. /\ call'[d][v] = e
      /\ \A c \in Designs, u \in Vendors : ~(c = d /\ u = v) => call'[c][u] = call[c][u]
  BY <1>0, <1>2 DEF TypeOK
<1>4. /\ v # Bureau => at' = at
      /\ v = Bureau => /\ at[d] = "stageB" /\ at'[d] = "answered"
                       /\ \A c \in Designs : c # d => at'[c] = at[c]
      /\ \A c \in Designs : (at'[c] = "stageA") <=> (at[c] = "stageA")
  BY <1>0, <1>1, <1>2 DEF TypeOK, Staged
<1>5. \A c \in Designs, u \in Vendors : AnswerTime(c, u)' = AnswerTime(c, u)
  BY <1>2 DEF AnswerTime, Began
<1>6. \A u \in Independent :
        call'["naive"][u] = "nil" /\ call'["guarded"][u] = "calling"
          => now' >= AnswerTime("guarded", u)'
  <2>1. ASSUME NEW u \in Independent,
               call'["naive"][u] = "nil", call'["guarded"][u] = "calling"
        PROVE  now' >= AnswerTime("guarded", u)'
    <3>0. u \in Vendors /\ u # Bureau
      BY <1>0 DEF Vendors
    <3>1. call["guarded"][u] = "calling"
      BY <1>0, <1>1, <1>3, <2>1, <3>0 DEF InnerError
    <3>2. CASE d = "naive" /\ u = v
      <4>1. now >= AnswerTime("naive", u)
        BY <1>1, <1>3, <2>1, <3>2
      <4>2. AnswerTime("naive", u) = AnswerTime("guarded", u)
        BY <3>0 DEF AnswerTime, Began
      <4> QED
        BY <1>0, <1>2, <1>5, <3>0, <4>1, <4>2
    <3>3. CASE ~(d = "naive" /\ u = v)
      BY <1>0, <1>2, <1>3, <1>5, <2>1, <3>0, <3>1, <3>3 DEF RaceInv
    <3> QED
      BY <3>2, <3>3
  <2> QED
    BY <2>1
<1>7. \A u \in Independent : call["naive"][u] = "nil" => call'["naive"][u] = "nil"
  BY <1>0, <1>1, <1>3 DEF Vendors
<1>8. at'["naive"] = "answered" /\ at'["guarded"] # "answered" =>
         now' >= AnswerTime("naive", Bureau)' \/ now' >= Budget
  <2>1. CASE d = "naive" /\ v = Bureau
    <3>1. Deadline("naive", Bureau) = Budget
      BY DEF Deadline, ContextDeadline
    <3> QED
      BY <1>0, <1>1, <1>2, <1>5, <2>1, <3>1
  <2>2. CASE ~(d = "naive" /\ v = Bureau)
    <3>1. (at'["naive"] = "answered" /\ at'["guarded"] # "answered") =>
             (at["naive"] = "answered" /\ at["guarded"] # "answered")
      BY <1>0, <1>4, <2>2
    <3> QED
      BY <1>0, <1>2, <1>5, <3>1 DEF RaceInv
  <2> QED
    BY <2>1, <2>2
<1>9. at'["naive"] = "stageA" => \A u \in heard'["naive"] : call'["naive"][u] = "nil"
  BY <1>0, <1>2, <1>4, <1>7 DEF RaceInv, TypeOK
<1> QED
  BY <1>0, <1>2, <1>4, <1>6, <1>7, <1>8, <1>9 DEF RaceInv

\* So does a fan-in that ends: at that moment the other one has ended at the
\* same time or is still waiting.
LEMMA FanInRaceInv ==
    ASSUME IInv, RaceInv, NEW d \in Designs, Receive(d) \/ StopWaiting(d)
    PROVE  RaceInv'
<1>0. /\ TypeOK /\ Timely /\ Staged /\ "naive" \in Designs /\ "guarded" \in Designs
      /\ Bureau \in Vendors /\ Bureau \notin Independent /\ at[d] = "stageA"
      /\ \A c \in Designs : c = "naive" \/ c = "guarded"
  BY VendorsAssumption DEF IInv, Designs, Vendors, Receive, StopWaiting
<1>1. /\ \A c \in Designs : c # d => heard'[c] = heard[c]
      /\ d = "naive" => \A v \in heard'[d] : call[d][v] = "nil"
      /\ UNCHANGED <<now, health>>
  <2>1. CASE Receive(d)
    BY <1>0, <2>1 DEF Receive, Sent, RaceInv, TypeOK, CallDependent
  <2>2. CASE StopWaiting(d)
    BY <1>0, <2>2 DEF StopWaiting, RaceInv, CallDependent
  <2> QED
    BY <2>1, <2>2
<1>2. CASE CallDependent(d)
  <2>1. /\ since' = [since EXCEPT ![d] = now]
        /\ \A c \in Designs : c # d => at'[c] = at[c] /\ since'[c] = since[c]
        /\ since'[d] = now
        /\ at'[d] # "stageA" /\ (d = "naive" => at'[d] = "stageB")
    BY <1>0, <1>2 DEF CallDependent, TypeOK
  <2>2. \A c \in Designs, v \in Independent : call'[c][v] = call[c][v] /\ v # Bureau /\ v \in Vendors
    BY <1>0, <1>2 DEF CallDependent, TypeOK, Vendors
  <2>3. \A c \in Designs, v \in Independent : AnswerTime(c, v)' = AnswerTime(c, v)
    BY <1>1, <2>2 DEF AnswerTime, Began
  <2>4. \A v \in Independent :
          call'["naive"][v] = "nil" /\ call'["guarded"][v] = "calling"
            => now' >= AnswerTime("guarded", v)'
    BY <1>0, <1>1, <2>2, <2>3 DEF RaceInv
  <2>5. at'["naive"] = "stageA" => \A v \in heard'["naive"] : call'["naive"][v] = "nil"
    BY <1>0, <1>1, <2>1, <2>2 DEF RaceInv, TypeOK
  <2>6. at'["guarded"] = "stageA" => heard'["guarded"] # Independent
    BY <1>0, <1>1, <2>1 DEF RaceInv
  <2>7. at'["naive"] # "stageA" /\ at'["guarded"] = "stageA" =>
          /\ now' >= StageADeadline \/ \A v \in Independent : call'["naive"][v] = "nil"
          /\ since'["naive"] = now'
    <3>1. ASSUME at'["naive"] # "stageA", at'["guarded"] = "stageA"
          PROVE  d = "naive"
      BY <1>0, <2>1, <3>1
    <3>2. ASSUME d = "naive"
          PROVE  now >= StageADeadline \/ \A v \in Independent : call["naive"][v] = "nil"
      <4>1. heard'[d] = Independent \/ now >= StageADeadline
        BY <1>0, <2>1 DEF Receive, StopWaiting
      <4> QED
        BY <1>1, <3>2, <4>1
    <3> QED
      BY <1>0, <1>1, <2>1, <2>2, <3>1, <3>2
  <2>8. at'["naive"] # "stageA" /\ at'["guarded"] # "stageA" => since'["guarded"] <= since'["naive"]
    <3>1. CASE d = "naive"
      BY <1>0, <2>1, <3>1 DEF Timely, TypeOK
    <3>2. CASE d = "guarded"
      BY <1>0, <2>1, <3>2 DEF RaceInv, TypeOK
    <3> QED
      BY <1>0, <3>1, <3>2
  <2>9. at'["naive"] = "answered" /\ at'["guarded"] # "answered" =>
          now' >= AnswerTime("naive", Bureau)' \/ now' >= Budget
    <3>1. ASSUME at'["naive"] = "answered"
          PROVE  d = "guarded" /\ at["naive"] = "answered" /\ since'["naive"] = since["naive"]
      BY <1>0, <2>1, <3>1
    <3>2. since'["naive"] = since["naive"] => AnswerTime("naive", Bureau)' = AnswerTime("naive", Bureau)
      BY <1>1 DEF AnswerTime, Began
    <3> QED
      BY <1>0, <1>1, <3>1, <3>2 DEF RaceInv
  <2> QED
    BY <2>4, <2>5, <2>6, <2>7, <2>8, <2>9 DEF RaceInv
<1>3. CASE ~CallDependent(d)
  <2>1. Receive(d) /\ heard'[d] # Independent /\ UNCHANGED <<at, since, call>>
    BY <1>3 DEF Receive, StopWaiting
  <2>2. \A c \in Designs, v \in Vendors : AnswerTime(c, v)' = AnswerTime(c, v)
    BY <1>1, <2>1 DEF AnswerTime, Began
  <2>3. at["guarded"] = "stageA" => heard'["guarded"] # Independent
    BY <1>0, <1>1, <2>1 DEF RaceInv
  <2>4. at["naive"] = "stageA" => \A v \in heard'["naive"] : call["naive"][v] = "nil"
    BY <1>0, <1>1 DEF RaceInv
  <2> QED
    BY <1>0, <1>1, <2>1, <2>2, <2>3, <2>4 DEF RaceInv, Vendors
<1> QED
  BY <1>2, <1>3

\* And every other step.
LEMMA NextRaceInv ==
    ASSUME IInv, RaceInv, [Next]_vars
    PROVE  RaceInv'
<1>0. /\ TypeOK /\ Timely /\ "naive" \in Designs /\ "guarded" \in Designs
      /\ Bureau \notin Independent
  BY VendorsAssumption DEF IInv, Designs
<1>1. CASE Submit
  <2>1. \A d \in Designs : at'[d] = "stageA" /\ heard'[d] = {}
    BY <1>1 DEF Submit
  <2>2. \A v \in Independent : call'["naive"][v] = "calling"
    BY <1>0, <1>1 DEF Submit, Vendors
  <2> QED
    BY <1>0, <2>1, <2>2, VendorsAssumption DEF RaceInv
<1>2. CASE Tick
  <2>1. /\ UNCHANGED <<at, since, heard, call, health>> /\ ~Due
        /\ now' \in Nat /\ now' >= now /\ now \in Nat
    BY <1>0, <1>2 DEF Tick, TypeOK
  <2>2. /\ at["naive"] # "stageA" => at["guarded"] # "stageA"
        /\ at["naive"] = "answered" => at["guarded"] = "answered"
    BY <2>1, BehindIsDue, BehindInStageBIsDue
  <2>3. \A d \in Designs, v \in Vendors :
          AnswerTime(d, v)' = AnswerTime(d, v) /\ AnswerTime(d, v) \in Nat
    BY <1>0, <2>1, Times DEF AnswerTime, Began
  <2> QED
    BY <1>0, <2>1, <2>2, <2>3 DEF RaceInv, Vendors
<1>3. ASSUME NEW v \in Vendors, HealthChanges(v) PROVE RaceInv'
  <2>1. /\ UNCHANGED <<now, at, since, heard, call>>
        /\ \A d \in Designs : at[d] = "answered" /\ \A u \in Vendors : call[d][u] # "calling"
    BY <1>3 DEF HealthChanges, Idle
  <2> QED
    BY <1>0, <2>1 DEF RaceInv, Vendors
<1>4. CASE UNCHANGED vars
  BY <1>4 DEF vars, RaceInv, AnswerTime, Began
<1> QED
  BY <1>1, <1>2, <1>3, <1>4, SettleRaceInv, FanInRaceInv DEF Next, Work

\* The guarded design has answered by the time the naive one answers, for any
\* vendors, latencies and budgets (scorer.go:13-17, naive.go:14-26).
THEOREM GuardedNeverSlower == Spec => NeverSlower
<1>1. Init => RaceInv
  BY DEF Init, RaceInv, Designs
<1>2. IInv /\ RaceInv /\ [Next]_vars => RaceInv'
  BY NextRaceInv
<1>3. ASSUME IInv, RaceInv, [Next]_vars, now' > now, at["naive"] = "answered"
      PROVE  at["guarded"] = "answered"
  <2>0. now \in Nat
    BY <1>3 DEF IInv, TypeOK
  <2>1. CASE Tick
    BY <1>3, <2>1, BehindInStageBIsDue DEF Tick
  <2>2. CASE ~Tick
    <3>1. now' = now \/ now' = 0
      BY <1>3, <2>2 DEF Next, Submit, Work, VendorAnswers, TimesOut, Settle, Receive,
                       StopWaiting, CallDependent, HealthChanges, vars
    <3> QED
      BY <1>3, <2>0, <3>1
  <2> QED
    BY <2>1, <2>2
<1>4. IInv /\ RaceInv /\ [Next]_vars =>
        [ now' > now /\ at["naive"] = "answered" => at["guarded"] = "answered" ]_vars
  BY <1>3
<1> QED
  BY <1>1, <1>2, <1>4, Invariance, PTL DEF Spec, NeverSlower

-----------------------------------------------------------------------------
(* A breaker sheds the load of a vendor that keeps failing.                *)

\* What the breaker of v knows.
TripInvOf(v) ==
    /\ call["guarded"][v] = "calling" => cb[v].state # "open" /\ "call" \in cb[v].live
    /\ cb[v].state = "closed" => cb[v].failures = failures[v] /\ failures[v] < trip
    /\ cb[v].state = "half-open" /\ call["guarded"][v] # "calling" => failures[v] = 0
    /\ cb[v].state = "open" /\ failures[v] = trip => cooldown[v] + quiet[v] = OpenTimeout

TripInv == \A v \in Vendors : TripInvOf(v)

\* A breaker in front of a vendor that has failed `trip` times in a row admits
\* a call only when its open timeout is over, and then knows of that call.
LEMMA ConsultedTrip ==
    ASSUME TypeOK, NEW v \in Vendors, TripInvOf(v), call["guarded"][v] # "calling",
           cb'[v] = Consulted(v), (call'["guarded"][v] = "calling") <=> Admitted(v),
           failures'[v] = failures[v], cooldown'[v] = cooldown[v], quiet'[v] = quiet[v]
    PROVE  /\ TripInvOf(v)'
           /\ Admitted(v) /\ failures[v] = trip => quiet[v] = OpenTimeout
<1>0. /\ cb[v] \in Breaker /\ (cb[v].cooling <=> cooldown[v] > 0)
      /\ failures[v] \in Nat /\ cooldown[v] \in Nat /\ quiet[v] \in Nat /\ quiet[v] <= OpenTimeout
  BY TimesNat, TripNat DEF TypeOK
<1> DEFINE b == CurrentState(cb[v])
<1>1. b \in Breaker
  BY <1>0, CurrentStateType
<1>2. CASE cb[v].state = "open" /\ cb[v].cooling
  BY <1>0, <1>2 DEF CurrentState, Admitted, Rejects, Consulted, TripInvOf
<1>3. CASE cb[v].state = "open" /\ ~cb[v].cooling
  <2>1. b.state = "half-open" /\ b.requests = 0 /\ b.live = {}
    BY <1>3 DEF CurrentState, NewGeneration
  <2>2. Admitted(v)
    BY <2>1, TripNat DEF Admitted, Rejects
  <2>3. cb'[v] = OnRequest(b, "call")
    BY <2>2 DEF Consulted
  <2>4. cb'[v].state = "half-open" /\ "call" \in cb'[v].live
    BY <1>1, <2>1, <2>3 DEF OnRequest, Breaker
  <2>5. failures[v] = trip => quiet[v] = OpenTimeout
    BY <1>0, <1>3, TimesNat DEF TripInvOf
  <2>6. call'["guarded"][v] = "calling"
    BY <2>2
  <2>7. TripInvOf(v)'
    BY <2>4, <2>6 DEF TripInvOf
  <2> QED
    BY <2>5, <2>7
<1>4. CASE cb[v].state # "open"
  <2>1. b = cb[v]
    BY <1>4 DEF CurrentState
  <2>2. failures[v] # trip
    BY <1>0, <1>4, TripNat DEF TripInvOf, Breaker, BreakerState
  <2>3. CASE Admitted(v)
    <3>1. cb'[v] = OnRequest(cb[v], "call")
      BY <2>1, <2>3 DEF Consulted
    <3>2. /\ cb'[v].state = cb[v].state /\ cb'[v].failures = cb[v].failures
          /\ "call" \in cb'[v].live
      BY <1>0, <3>1 DEF OnRequest, Breaker
    <3> QED
      BY <1>4, <2>2, <2>3, <3>2 DEF TripInvOf
  <2>4. CASE ~Admitted(v)
    <3>1. cb'[v] = cb[v] /\ call'["guarded"][v] # "calling"
      BY <2>1, <2>4 DEF Consulted
    <3> QED
      BY <1>4, <2>2, <2>4, <3>1 DEF TripInvOf
  <2> QED
    BY <2>3, <2>4
<1> QED
  BY <1>2, <1>3, <1>4

\* A breaker that is not consulted does not learn anything.
LEMMA UndisturbedTrip ==
    ASSUME NEW v \in Vendors, TripInvOf(v), cb'[v] = cb[v],
           (call'["guarded"][v] = "calling") <=> (call["guarded"][v] = "calling"),
           failures'[v] = failures[v], cooldown'[v] = cooldown[v], quiet'[v] = quiet[v]
    PROVE  TripInvOf(v)'
  BY DEF TripInvOf

\* What ShedsLoad says of a step.
LoadShed ==
    \A v \in Vendors :
      /\ call["guarded"][v] # "calling" /\ call'["guarded"][v] = "calling"
      /\ failures[v] = trip
      => quiet[v] = OpenTimeout

\* Submit and CallDependent consult breakers, and change nothing else of them.
LEMMA SubmitTrip ==
    ASSUME IInv, TripInv, Submit
    PROVE  TripInv' /\ LoadShed
<1>0. /\ TypeOK /\ "guarded" \in Designs /\ Bureau \in Vendors
      /\ \A v \in Vendors : call["guarded"][v] # "calling"
      /\ \A v \in Vendors : (Fetching(v) = "calling") <=> Admitted(v)
  BY FetchBegins DEF IInv, Designs, Vendors, Submit, Idle
<1>1. UNCHANGED <<cooldown, failures, quiet>>
  BY DEF Submit, historyVars
<1>2. ASSUME NEW v \in Vendors
      PROVE  /\ TripInvOf(v)'
             /\ call'["guarded"][v] = "calling" /\ failures[v] = trip => quiet[v] = OpenTimeout
  <2>1. TripInvOf(v)
    BY DEF TripInv
  <2>2. CASE v = Bureau
    <3>1. cb'[v] = cb[v] /\ call'["guarded"][v] = "none"
      BY <1>0, <2>2 DEF Submit
    <3> QED
      BY <1>0, <1>1, <2>1, <3>1, UndisturbedTrip
  <2>3. CASE v # Bureau
    <3>1. cb'[v] = Consulted(v) /\ call'["guarded"][v] = Fetching(v)
      BY <1>0, <2>3 DEF Submit
    <3> QED
      BY <1>0, <1>1, <2>1, <3>1, ConsultedTrip
  <2> QED
    BY <2>2, <2>3
<1> QED
  BY <1>2 DEF TripInv, LoadShed

\* The bureau's call in Stage B keeps what ties a breaker to its vendor.
LEMMA CallDependentTrip ==
    ASSUME IInv, TripInv, NEW d \in Designs, at[d] = "stageA", CallDependent(d)
    PROVE  TripInv' /\ LoadShed
<1>0. /\ TypeOK /\ Staged /\ "guarded" \in Designs /\ Bureau \in Vendors
      /\ \A v \in Vendors : (Fetching(v) = "calling") <=> Admitted(v)
  BY FetchBegins DEF IInv, Designs, Vendors
<1>1. UNCHANGED <<cooldown, failures, quiet>>
  BY DEF CallDependent, historyVars
<1>2. ASSUME NEW v \in Vendors
      PROVE  /\ TripInvOf(v)'
             /\ /\ call["guarded"][v] # "calling" /\ call'["guarded"][v] = "calling"
                /\ failures[v] = trip
                => quiet[v] = OpenTimeout
  <2>1. TripInvOf(v)
    BY DEF TripInv
  <2>2. CASE d = "guarded" /\ v = Bureau
    <3>1. call["guarded"][v] # "calling"
      BY <1>0, <2>2 DEF Staged
    <3>2. /\ cb' = [cb EXCEPT ![Bureau] = Consulted(Bureau)]
          /\ call' = [call EXCEPT !["guarded"][Bureau] = Fetching(Bureau)]
      BY <2>2 DEF CallDependent
    <3>3. cb'[v] = Consulted(v) /\ call'["guarded"][v] = Fetching(v)
      BY <1>0, <2>2, <3>2 DEF TypeOK
    <3> QED
      BY <1>0, <1>1, <2>1, <3>1, <3>3, ConsultedTrip
  <2>3. CASE ~(d = "guarded" /\ v = Bureau)
    <3>1. cb'[v] = cb[v]
      BY <1>0, <2>3 DEF CallDependent, TypeOK
    <3>2. PICK f : call' = [call EXCEPT ![d][Bureau] = f]
      BY DEF CallDependent
    <3>3. call'["guarded"][v] = call["guarded"][v]
      BY <1>0, <2>3, <3>2 DEF TypeOK
    <3> QED
      BY <1>1, <2>1, <3>1, <3>3, UndisturbedTrip
  <2> QED
    BY <2>2, <2>3
<1> QED
  BY <1>2 DEF TripInv, LoadShed

\* The breaker that admitted a call takes its result into account.
LEMMA AfterRequestTrip ==
    ASSUME NEW b \in Breaker, b.state # "open", "call" \in b.live,
           NEW e \in {"nil", "vendorError", "DeadlineExceeded"}
    PROVE  LET r == AfterRequest(b, "call", e) IN
           /\ r.state = "open" => r.cooling
           /\ e = "nil" => r.state # "open" /\ (r.state = "closed" => r.failures = 0)
           /\ e # "nil" => \/ r.state = "open"
                           \/ /\ b.state = "closed" /\ r.state = "closed"
                              /\ r.failures = b.failures + 1 /\ r.failures < trip
<1> DEFINE s == [b EXCEPT !.live = @ \ {"call"}]
<1>1. s \in Breaker /\ s.state = b.state /\ s.failures = b.failures
  BY DEF Breaker
<1>2. CurrentState(b) = b
  BY DEF CurrentState
<1>3. /\ e = "nil" => AfterRequest(b, "call", e) = OnSuccess(s)
      /\ e # "nil" => AfterRequest(b, "call", e) = OnFailure(s)
  BY <1>2 DEF AfterRequest, IsSuccessful
<1>4. b.state \in {"closed", "half-open"} /\ b.failures \in Nat
  BY DEF Breaker, BreakerState
<1> HIDE DEF s
<1>5. OnSuccess(s).state # "open" /\ (OnSuccess(s).state = "closed" => OnSuccess(s).failures = 0)
  <2>1. CASE s.state = "half-open" /\ s.successes + 1 >= maxRequests
    BY <2>1 DEF OnSuccess, NewGeneration
  <2>2. CASE s.state = "half-open" /\ ~(s.successes + 1 >= maxRequests)
    BY <1>1, <2>2 DEF OnSuccess, Breaker
  <2>3. CASE s.state # "half-open"
    BY <1>1, <1>4, <2>3 DEF OnSuccess, Breaker
  <2> QED
    BY <2>1, <2>2, <2>3
<1>6. \/ OnFailure(s).state = "open" /\ OnFailure(s).cooling
      \/ /\ s.state = "closed" /\ OnFailure(s).state = "closed"
         /\ OnFailure(s).failures = s.failures + 1 /\ OnFailure(s).failures < trip
  <2>1. CASE s.state = "half-open" \/ ReadyToTrip(s.failures + 1)
    BY <2>1 DEF OnFailure, NewGeneration
  <2>2. CASE ~(s.state = "half-open" \/ ReadyToTrip(s.failures + 1))
    BY <1>1, <1>4, <2>2, TripNat DEF OnFailure, ReadyToTrip, Breaker
  <2> QED
    BY <2>1, <2>2
<1> QED
  BY <1>1, <1>3, <1>5, <1>6

\* The end of a call starts the open timeout and the quiet together.
LEMMA SettleTrip ==
    ASSUME IInv, TripInv, NEW d \in Designs, NEW v \in Vendors,
           NEW e \in {"nil", "vendorError", "DeadlineExceeded"},
           call[d][v] = "calling", Settle(d, v, e)
    PROVE  TripInv' /\ LoadShed
<1>0. TypeOK /\ "guarded" \in Designs
  BY DEF IInv, Designs
<1>1. call' = [call EXCEPT ![d][v] = e]
  BY DEF Settle
<1>2. LoadShed
  BY <1>0, <1>1 DEF LoadShed, TypeOK
<1>3. ASSUME NEW u \in Vendors, ~(d = "guarded" /\ u = v)
      PROVE  TripInvOf(u)'
  <2>1. call'["guarded"][u] = call["guarded"][u]
    BY <1>0, <1>1, <1>3 DEF TypeOK
  <2>2. CASE d = "guarded"
    <3>1. /\ cb'[u] = cb[u] /\ failures'[u] = failures[u]
          /\ cooldown'[u] = cooldown[u] /\ quiet'[u] = quiet[u]
      BY <1>0, <1>3, <2>2 DEF Settle, TypeOK
    <3> QED
      BY <2>1, <3>1, UndisturbedTrip DEF TripInv
  <2>3. CASE d # "guarded"
    <3>1. UNCHANGED <<guardVars, historyVars>>
      BY <2>3 DEF Settle
    <3> QED
      BY <2>1, <3>1, UndisturbedTrip DEF TripInv, guardVars, historyVars
  <2> QED
    BY <2>2, <2>3
<1>4. CASE d = "guarded"
  <2> DEFINE r == AfterRequest(cb[v], "call", e)
             n == IF e = "nil" THEN 0 ELSE Least(failures[v] + 1, trip)
  <2>1. /\ cb[v] \in Breaker /\ cb[v].state # "open" /\ "call" \in cb[v].live
        /\ failures[v] \in 0..trip
        /\ cb[v].state = "closed" => cb[v].failures = failures[v] /\ failures[v] < trip
    BY <1>0, <1>4 DEF TypeOK, TripInv, TripInvOf
  <2>2. /\ cb'[v] = r /\ failures'[v] = n /\ quiet'[v] = 0
        /\ cooldown'[v] = IF r.cooling THEN OpenTimeout ELSE 0
    BY <1>0, <1>4 DEF Settle, TypeOK
  <2>3. call'["guarded"][v] # "calling"
    BY <1>0, <1>1, <1>4 DEF TypeOK
  <2>4. /\ r.state = "open" => r.cooling
        /\ e = "nil" => r.state # "open" /\ (r.state = "closed" => r.failures = 0)
        /\ e # "nil" => \/ r.state = "open"
                        \/ /\ cb[v].state = "closed" /\ r.state = "closed"
                           /\ r.failures = cb[v].failures + 1 /\ r.failures < trip
    BY <2>1, AfterRequestTrip
  <2> HIDE DEF r
  <2>5. /\ r.state = "closed" => r.failures = n /\ n < trip
        /\ r.state = "half-open" => n = 0
        /\ r.state = "open" => cooldown'[v] + quiet'[v] = OpenTimeout
    <3>1. CASE e = "nil"
      BY <2>4, <3>1, TripNat
    <3>2. CASE e # "nil"
      BY <2>1, <2>2, <2>4, <3>2, TripNat, TimesNat DEF Least
    <3> QED
      BY <3>1, <3>2
  <2>6. TripInvOf(v)'
    BY <2>2, <2>3, <2>5 DEF TripInvOf
  <2> QED
    BY <1>2, <1>3, <2>6 DEF TripInv
<1>5. CASE d # "guarded"
  BY <1>2, <1>3, <1>5 DEF TripInv
<1> QED
  BY <1>4, <1>5

\* Time passes for both alike.
LEMMA TickTrip ==
    ASSUME IInv, TripInv, Tick
    PROVE  TripInv' /\ LoadShed
<1>0. TypeOK
  BY DEF IInv
<1>1. ASSUME NEW v \in Vendors
      PROVE  TripInvOf(v)'
  <2>1. /\ cb'[v] = [cb[v] EXCEPT !.cooling = cooldown'[v] > 0]
        /\ cooldown'[v] = IF cooldown[v] > 0 THEN cooldown[v] - 1 ELSE 0
        /\ quiet'[v] = IF failures[v] = trip THEN Least(quiet[v] + 1, OpenTimeout) ELSE 0
        /\ failures'[v] = failures[v] /\ call'["guarded"][v] = call["guarded"][v]
    BY DEF Tick
  <2>2. /\ cb[v] \in Breaker /\ cooldown[v] \in Nat /\ quiet[v] \in Nat /\ failures[v] \in Nat
        /\ TripInvOf(v)
    BY <1>0, TripNat, TimesNat DEF TypeOK, TripInv
  <2>3. /\ cb'[v].state = cb[v].state /\ cb'[v].failures = cb[v].failures
        /\ cb'[v].live = cb[v].live
    BY <2>1, <2>2 DEF Breaker
  <2>4. cb[v].state = "open" /\ failures[v] = trip => cooldown'[v] + quiet'[v] = OpenTimeout
    BY <2>1, <2>2, TimesNat DEF TripInvOf, Least
  <2> QED
    BY <2>1, <2>2, <2>3, <2>4 DEF TripInvOf
<1>2. LoadShed
  BY DEF LoadShed, Tick
<1> QED
  BY <1>1, <1>2 DEF TripInv

\* Every step keeps what ties the breakers to their vendors, and sheds load.
LEMMA NextTrip == IInv /\ TripInv /\ [Next]_vars => TripInv' /\ LoadShed
<1> SUFFICES ASSUME IInv, TripInv, [Next]_vars PROVE TripInv' /\ LoadShed
  OBVIOUS
<1>1. ASSUME UNCHANGED <<call, guardVars, historyVars>> PROVE TripInv' /\ LoadShed
  BY <1>1 DEF TripInv, TripInvOf, LoadShed, guardVars, historyVars
<1>2. ASSUME NEW d \in Designs, Receive(d) \/ StopWaiting(d) PROVE TripInv' /\ LoadShed
  <2>1. at[d] = "stageA"
    BY <1>2 DEF Receive, StopWaiting
  <2>2. CallDependent(d) \/ UNCHANGED <<call, guardVars, historyVars>>
    BY <1>2 DEF Receive, StopWaiting
  <2> QED
    BY <1>1, <2>1, <2>2, CallDependentTrip
<1>3. ASSUME NEW d \in Designs, NEW v \in Vendors, VendorAnswers(d, v) \/ TimesOut(d, v)
      PROVE  TripInv' /\ LoadShed
  BY <1>3, SettleTrip DEF VendorAnswers, TimesOut
<1>4. ASSUME NEW v \in Vendors, HealthChanges(v) PROVE TripInv' /\ LoadShed
  BY <1>1, <1>4 DEF HealthChanges
<1>5. CASE UNCHANGED vars
  BY <1>1, <1>5 DEF vars
<1> QED
  BY <1>2, <1>3, <1>4, <1>5, SubmitTrip, TickTrip DEF Next, Work

\* A vendor that has failed often enough to trip is called at most once per
\* open timeout until it answers, for any settings (guarded.go:35-37).
THEOREM LoadIsShed == Spec => ShedsLoad
<1>1. Init => TripInv
  BY TripNat DEF Init, TripInv, TripInvOf, NewGeneration, Designs
<1>2. IInv /\ TripInv /\ [Next]_vars => TripInv'
  BY NextTrip
<1>3. IInv /\ TripInv /\ [Next]_vars =>
        [ \A v \in Vendors :
            /\ call["guarded"][v] # "calling" /\ call'["guarded"][v] = "calling"
            /\ failures[v] = trip
            => quiet[v] = OpenTimeout ]_vars
  BY NextTrip DEF LoadShed
<1> QED
  BY <1>1, <1>2, <1>3, Invariance, PTL DEF Spec, ShedsLoad
-----------------------------------------------------------------------------
(* No signal is lost.                                                      *)

\* A slow vendor is slower than the whole request (defaults.go:71-74, "latency
\* far beyond any budget").
SlowIsTooSlow == SickLatency > Budget

Ended(d, v) == call[d][v] \notin {"none", "calling"}

\* The guarded design has the signal of v, or did not ask for it.
Got(v) == call["guarded"][v] = "nil" \/ observed[v].outcome = "breaker_open"

\* What one design's call of v promises for the other's.
SignalOf(v) ==
    /\ call["naive"][v] = "nil" => IF Ended("guarded", v) THEN Got(v) ELSE health[v] = "well"
    /\ Ended("guarded", v) /\ ~Ended("naive", v) /\ health[v] = "well" => Got(v)

\* Once applications come, only the bureau of a design still in Stage A has not
\* been asked.
Asked ==
    \/ \A d \in Designs : at[d] = "answered" /\ \A v \in Vendors : call[d][v] = "none"
    \/ \A d \in Designs, v \in Vendors :
         (call[d][v] = "none") <=> (v = Bureau /\ at[d] = "stageA")

\* The guarded fan-in has heard every signal it is going to get.
Heard ==
    /\ \A v \in heard["guarded"] : call["guarded"][v] # "calling"
    /\ \A v \in Independent \ heard["guarded"] :
         call["guarded"][v] = "nil" => at["guarded"] = "stageA" /\ now < StageADeadline
    /\ at["guarded"] # "stageA" =>
         \A v \in Independent : call["guarded"][v] = "calling" => now >= StageADeadline

SignalInv == Asked /\ Heard /\ \A v \in Vendors : SignalOf(v)

\* A call that a breaker turns away is recorded as such.
LEMMA TurnedAway ==
    ASSUME NEW v \in Vendors
    PROVE  /\ Fetching(v) \notin {"none", "nil"}
           /\ Fetching(v) # "calling" => ObservedAtOnce(v).outcome = "breaker_open"
  BY DEF Fetching, Rejection, ObservedAtOnce, Observation, classify

\* A new application starts with every independent vendor asked by the naive
\* design, and by the guarded one unless its breaker turns the call away.
LEMMA SubmitSignal == ASSUME IInv, Submit PROVE SignalInv'
<1>0. TypeOK /\ "guarded" \in Designs /\ "naive" \in Designs /\ Bureau \in Vendors
      /\ Bureau \notin Independent /\ Independent \subseteq Vendors
  BY VendorsAssumption DEF IInv, Designs, Vendors
<1>1. /\ at' = [d \in Designs |-> "stageA"] /\ heard' = [d \in Designs |-> {}]
      /\ \A v \in Vendors : call'["naive"][v] = IF v = Bureau THEN "none" ELSE "calling"
      /\ \A v \in Vendors : call'["guarded"][v] = IF v = Bureau THEN "none" ELSE Fetching(v)
      /\ \A v \in Vendors \ {Bureau} : observed'[v] = ObservedAtOnce(v)
  BY <1>0 DEF Submit
<1>2. Asked'
  BY <1>1, TurnedAway DEF Asked, Designs
<1>3. Heard'
  BY <1>0, <1>1, TurnedAway DEF Heard
<1>4. ASSUME NEW v \in Vendors PROVE SignalOf(v)'
  BY <1>1, TurnedAway DEF SignalOf, Ended, Got
<1> QED
  BY <1>2, <1>3, <1>4 DEF SignalInv

\* A call that ends with a signal ends so for both designs.
LEMMA SettleSignal ==
    ASSUME BudgetsSuffice, SlowIsTooSlow, IInv, SignalInv,
           NEW d \in Designs, NEW v \in Vendors, VendorAnswers(d, v) \/ TimesOut(d, v)
    PROVE  SignalInv'
<1>0. /\ TypeOK /\ Timely /\ Staged /\ "guarded" \in Designs /\ "naive" \in Designs
      /\ Bureau \in Vendors /\ Bureau \notin Independent /\ Independent \subseteq Vendors
      /\ d = "guarded" \/ d = "naive"
  BY VendorsAssumption DEF IInv, Designs, Vendors
<1>1. PICK e \in InnerError :
        /\ call[d][v] = "calling" /\ Settle(d, v, e)
        /\ e = "nil" => health[v] = "well"
        /\ d = "guarded" /\ health[v] = "well" => e = "nil" /\ now < Deadline(d, v)
  <2>1. now \in Nat /\ Deadline(d, v) \in Nat /\ Began(d, v) \in Nat
        /\ Deadline(d, v) <= Budget
    BY <1>0, Times DEF TypeOK
  <2>2. call[d][v] = "calling"
    BY DEF VendorAnswers, TimesOut
  <2>3. now <= Deadline(d, v)
    BY <1>0, <2>2 DEF Timely
  <2>4. CASE VendorAnswers(d, v)
    <3>1. ASSUME health[v] = "slow" PROVE FALSE
      <4>1. now >= Began(d, v) + SickLatency
        BY <2>4, <3>1 DEF VendorAnswers, AnswerTime
      <4> QED
        BY <2>1, <2>3, <4>1, TimesNat DEF SlowIsTooSlow
    <3>2. health[v] \in Health
      BY <1>0 DEF TypeOK
    <3>3. d = "guarded" /\ health[v] = "well" => now < Deadline(d, v)
      BY <2>2, WellInTime
    <3> QED
      BY <2>2, <2>4, <3>1, <3>2, <3>3 DEF VendorAnswers, Health, InnerError
  <2>5. CASE TimesOut(d, v)
    <3>1. ~(d = "guarded" /\ health[v] = "well")
      BY <2>1, <2>2, <2>5, WellInTime DEF TimesOut
    <3> QED
      BY <2>2, <2>5, <3>1 DEF TimesOut, InnerError
  <2> QED
    BY <2>4, <2>5
<1>2. /\ call' = [call EXCEPT ![d][v] = e]
      /\ at' = IF v = Bureau THEN [at EXCEPT ![d] = "answered"] ELSE at
      /\ UNCHANGED <<now, since, heard, health>>
  BY <1>1 DEF Settle
<1>3. /\ call'[d][v] = e /\ e # "calling" /\ e # "none"
      /\ \A c \in Designs, u \in Vendors : ~(c = d /\ u = v) => call'[c][u] = call[c][u]
  BY <1>0, <1>2 DEF TypeOK, InnerError
<1>4. \A u \in Vendors : ~(d = "guarded" /\ u = v) => observed'[u] = observed[u]
  BY <1>0, <1>1 DEF Settle, TypeOK, guardVars
<1>5. \A c \in Designs : (at'[c] = "stageA") <=> (at[c] = "stageA")
  BY <1>0, <1>1, <1>2 DEF TypeOK, Staged
<1>6. Asked'
  <2>1. \A c \in Designs, u \in Vendors : (call[c][u] = "none") <=> (u = Bureau /\ at[c] = "stageA")
    BY <1>1 DEF SignalInv, Asked
  <2> QED
    BY <1>1, <1>3, <1>5, <2>1 DEF Asked
<1>7. ASSUME NEW u \in Vendors PROVE SignalOf(u)'
  <2>0. SignalOf(u)
    BY DEF SignalInv
  <2>1. CASE u # v
    <3>1. /\ call'["guarded"][u] = call["guarded"][u] /\ call'["naive"][u] = call["naive"][u]
          /\ observed'[u] = observed[u] /\ health'[u] = health[u]
      BY <1>0, <1>2, <1>3, <1>4, <2>1
    <3> QED
      BY <2>0, <3>1 DEF SignalOf, Ended, Got
  <2>2. CASE u = v /\ d = "guarded"
    <3>1. call'["naive"][u] = call["naive"][u] /\ health'[u] = health[u]
      BY <1>0, <1>2, <1>3, <2>2
    <3>2. ~Ended("guarded", u)
      BY <1>1, <2>2 DEF Ended
    <3>3. health[u] = "well" => Got(u)'
      BY <1>1, <1>3, <2>2 DEF Got
    <3> QED
      BY <1>3, <2>0, <2>2, <3>1, <3>2, <3>3 DEF SignalOf, Ended
  <2>3. CASE u = v /\ d = "naive"
    <3>1. /\ call'["guarded"][u] = call["guarded"][u] /\ observed'[u] = observed[u]
          /\ health'[u] = health[u]
      BY <1>0, <1>2, <1>3, <1>4, <2>3
    <3>2. ~Ended("naive", u)
      BY <1>1, <2>3 DEF Ended
    <3> QED
      BY <1>1, <1>3, <2>0, <2>3, <3>1, <3>2 DEF SignalOf, Ended, Got
  <2> QED
    BY <1>0, <2>1, <2>2, <2>3
<1>8. Heard'
  <2>0. Heard
    BY DEF SignalInv
  <2>1. \A u \in heard'["guarded"] : call'["guarded"][u] # "calling"
    BY <1>0, <1>2, <1>3, <2>0 DEF Heard, TypeOK
  <2>2. ASSUME NEW u \in Independent \ heard'["guarded"], call'["guarded"][u] = "nil"
        PROVE  at'["guarded"] = "stageA" /\ now' < StageADeadline
    <3>1. CASE d = "guarded" /\ u = v
      <4>1. health[v] = "well" /\ now < Deadline(d, v)
        BY <1>1, <1>3, <2>2, <3>1
      <4>2. Deadline(d, v) <= StageADeadline
        BY <1>0, <3>1, Times
      <4>3. now < StageADeadline
        BY <1>0, <4>1, <4>2, Times, StageADeadlineType DEF TypeOK
      <4>4. at["guarded"] = "stageA"
        BY <1>0, <1>1, <2>0, <3>1, <4>3, StageADeadlineType DEF Heard, TypeOK
      <4> QED
        BY <1>0, <1>2, <1>5, <4>3, <4>4
    <3>2. CASE ~(d = "guarded" /\ u = v)
      BY <1>0, <1>2, <1>3, <1>5, <2>0, <2>2, <3>2 DEF Heard
    <3> QED
      BY <3>1, <3>2
  <2>3. at'["guarded"] # "stageA" =>
          \A u \in Independent : call'["guarded"][u] = "calling" => now' >= StageADeadline
    BY <1>0, <1>2, <1>3, <1>5, <2>0 DEF Heard
  <2> QED
    BY <1>2, <2>1, <2>2, <2>3 DEF Heard, StageADeadline
<1> QED
  BY <1>6, <1>7, <1>8 DEF SignalInv

\* A fan-in ends when all has been heard, or when there is nothing more to come.
LEMMA FanInSignal ==
    ASSUME IInv, SignalInv, NEW d \in Designs, Receive(d) \/ StopWaiting(d)
    PROVE  SignalInv'
<1>0. /\ TypeOK /\ "guarded" \in Designs /\ "naive" \in Designs
      /\ Bureau \in Vendors /\ Bureau \notin Independent /\ Independent \subseteq Vendors
      /\ d = "guarded" \/ d = "naive"
      /\ at[d] = "stageA"
  BY VendorsAssumption DEF IInv, Designs, Vendors, Receive, StopWaiting
<1>1. /\ UNCHANGED <<now, health>>
      /\ \A c \in Designs : c # d => heard'[c] = heard[c]
      /\ heard[d] \subseteq heard'[d] /\ heard'[d] \subseteq Independent
      /\ \A v \in heard'[d] \ heard[d] : v \in Sent(d)
  <2>1. CASE Receive(d)
    <3>1. PICK v \in Sent(d) \ heard[d] : heard' = [heard EXCEPT ![d] = @ \cup {v}]
      BY <2>1 DEF Receive
    <3>2. v \in Independent
      BY DEF Sent
    <3> QED
      BY <1>0, <2>1, <3>1, <3>2 DEF Receive, CallDependent, TypeOK
  <2>2. CASE StopWaiting(d)
    BY <1>0, <2>2 DEF StopWaiting, CallDependent, TypeOK
  <2> QED
    BY <2>1, <2>2
<1>2. CASE UNCHANGED <<at, call, observed>> /\ Receive(d)
  <2>1. Asked' /\ \A v \in Vendors : SignalOf(v)'
    BY <1>1, <1>2 DEF SignalInv, Asked, SignalOf, Ended, Got
  <2>2. \A v \in heard'["guarded"] : call["guarded"][v] # "calling"
    BY <1>0, <1>1 DEF SignalInv, Heard, Sent
  <2>3. heard["guarded"] \subseteq heard'["guarded"]
    BY <1>0, <1>1
  <2>4. Heard'
    BY <1>1, <1>2, <2>2, <2>3 DEF SignalInv, Heard, StageADeadline
  <2> QED
    BY <2>1, <2>4 DEF SignalInv
<1>3. CASE CallDependent(d)
  <2>0. \A c \in Designs, u \in Vendors : (call[c][u] = "none") <=> (u = Bureau /\ at[c] = "stageA")
    BY <1>0 DEF SignalInv, Asked
  <2>1. PICK f \in {"calling"} \cup {Fetching(Bureau)} :
          /\ call' = [call EXCEPT ![d][Bureau] = f]
          /\ d = "naive" => f = "calling" /\ observed' = observed
          /\ d = "guarded" =>
               f = Fetching(Bureau) /\ observed' = [observed EXCEPT ![Bureau] = ObservedAtOnce(Bureau)]
    BY <1>0, <1>3 DEF CallDependent
  <2>2. /\ call'[d][Bureau] = f /\ f # "none" /\ f # "nil"
        /\ \A c \in Designs, u \in Vendors : ~(c = d /\ u = Bureau) => call'[c][u] = call[c][u]
    <3> DEFINE g == [call[d] EXCEPT ![Bureau] = f]
    <3>1. g[Bureau] = f /\ \A u \in Vendors : u # Bureau => g[u] = call[d][u]
      BY <1>0 DEF TypeOK
    <3>2. call' = [call EXCEPT ![d] = g]
      BY <2>1
    <3>3. f # "none" /\ f # "nil"
      BY <1>0, TurnedAway
    <3> HIDE DEF g
    <3> QED
      BY <1>0, <3>1, <3>2, <3>3 DEF TypeOK
  <2>3. /\ at'[d] # "stageA" /\ \A c \in Designs : c # d => at'[c] = at[c]
    BY <1>0, <1>3 DEF CallDependent, TypeOK
  <2>4. \A u \in Vendors : ~(d = "guarded" /\ u = Bureau) => observed'[u] = observed[u]
    BY <1>0, <2>1 DEF TypeOK
  <2>5. Asked'
    BY <2>0, <2>2, <2>3 DEF Asked
  <2>6. ASSUME NEW u \in Vendors PROVE SignalOf(u)'
    <3>0. SignalOf(u) /\ health'[u] = health[u]
      BY <1>1 DEF SignalInv
    <3>1. CASE u # Bureau
      BY <1>0, <2>2, <2>4, <3>0, <3>1 DEF SignalOf, Ended, Got
    <3>2. CASE u = Bureau /\ d = "naive"
      BY <1>0, <2>0, <2>1, <2>2, <2>4, <3>0, <3>2 DEF SignalOf, Ended, Got
    <3>3. CASE u = Bureau /\ d = "guarded"
      <4>1. ~Ended("guarded", u) /\ call'["naive"][u] = call["naive"][u]
        BY <1>0, <2>0, <2>2, <3>3 DEF Ended
      <4>2. Ended("guarded", u)' => Got(u)'
        BY <1>0, <2>1, <2>2, <3>3, TurnedAway DEF Ended, Got, TypeOK
      <4> QED
        BY <3>0, <4>1, <4>2 DEF SignalOf, Ended
    <3> QED
      BY <1>0, <3>1, <3>2, <3>3
  <2>7. Heard'
    <3>0. Heard
      BY DEF SignalInv
    <3>1. CASE d = "naive"
      BY <1>0, <1>1, <2>2, <2>3, <3>0, <3>1 DEF Heard, StageADeadline, TypeOK
    <3>2. CASE d = "guarded"
      <4>1. \A v \in Independent : call'["guarded"][v] = call["guarded"][v]
        BY <1>0, <2>2
      <4>2. \A v \in heard'["guarded"] : call["guarded"][v] # "calling"
        BY <1>0, <1>1, <3>0, <3>2 DEF Heard, Sent
      <4>3. heard'["guarded"] = Independent \/ (now >= StageADeadline /\ heard' = heard)
        <5>1. CASE Receive(d) /\ heard'[d] # Independent
          BY <1>0, <1>3, <2>3, <5>1 DEF Receive
        <5>2. CASE StopWaiting(d)
          BY <5>2 DEF StopWaiting
        <5> QED
          BY <3>2, <5>1, <5>2
      <4>4. CASE heard'["guarded"] = Independent
        BY <1>1, <4>1, <4>2, <4>4 DEF Heard
      <4>5. CASE now >= StageADeadline /\ heard' = heard
        <5>1. \A v \in Independent \ heard["guarded"] : call["guarded"][v] # "nil"
          BY <1>0, <3>0, <4>5, StageADeadlineType DEF Heard, TypeOK
        <5>2. now' >= StageADeadline'
          BY <1>1, <4>5 DEF StageADeadline
        <5>3. heard'["guarded"] \subseteq Independent
          BY <1>1, <3>2
        <5> QED
          BY <4>1, <4>2, <4>5, <5>1, <5>2, <5>3 DEF Heard
      <4> QED
        BY <4>3, <4>4, <4>5
    <3> QED
      BY <1>0, <3>1, <3>2
  <2> QED
    BY <2>5, <2>6, <2>7 DEF SignalInv
<1> QED
  BY <1>2, <1>3 DEF Receive, StopWaiting, guardVars

\* While a signal waits in the channel of a fan-in, no time passes.
LEMMA TickSignal == ASSUME IInv, SignalInv, Tick PROVE SignalInv'
<1>0. TypeOK /\ "guarded" \in Designs
  BY DEF IInv, Designs
<1>1. /\ UNCHANGED <<at, heard, call, health, observed>> /\ ~Due
      /\ now' >= now /\ now \in Nat /\ now' \in Nat
  BY <1>0 DEF Tick, TypeOK
<1>2. Asked' /\ \A v \in Vendors : SignalOf(v)'
  BY <1>1 DEF SignalInv, Asked, SignalOf, Ended, Got
<1>3. \A v \in Independent \ heard["guarded"] :
        call["guarded"][v] = "nil" => at["guarded"] # "stageA"
  BY <1>0, <1>1 DEF Due, Sent
<1>4. Heard'
  BY <1>1, <1>3, StageADeadlineType DEF SignalInv, Heard, StageADeadline
<1> QED
  BY <1>2, <1>4 DEF SignalInv

\* Health changes only when all calls have ended.
LEMMA HealthSignal ==
    ASSUME IInv, SignalInv, NEW u \in Vendors, HealthChanges(u)
    PROVE  SignalInv'
<1>1. /\ UNCHANGED <<now, at, heard, call, observed>>
      /\ \A d \in Designs : at[d] = "answered" /\ \A v \in Vendors : call[d][v] # "calling"
      /\ "guarded" \in Designs /\ "naive" \in Designs
  BY DEF HealthChanges, Idle, guardVars, Designs
<1>2. Asked' /\ Heard'
  BY <1>1 DEF SignalInv, Asked, Heard, StageADeadline
<1>3. ASSUME NEW v \in Vendors PROVE SignalOf(v)'
  <2>1. CASE call["naive"][v] = "none" /\ call["guarded"][v] = "none"
    BY <1>1, <2>1 DEF SignalOf, Ended, Got
  <2>2. CASE Ended("naive", v) /\ Ended("guarded", v)
    BY <1>1, <2>2 DEF SignalInv, SignalOf, Ended, Got
  <2> QED
    BY <1>1, <2>1, <2>2 DEF SignalInv, Asked, Ended
<1> QED
  BY <1>2, <1>3 DEF SignalInv

\* Every step keeps what relates the signals of the two designs.
LEMMA NextSignal ==
    ASSUME BudgetsSuffice, SlowIsTooSlow, IInv, SignalInv, [Next]_vars
    PROVE  SignalInv'
<1>1. CASE UNCHANGED vars
  BY <1>1 DEF vars, guardVars, SignalInv, Asked, Heard, SignalOf, Ended, Got, StageADeadline
<1> QED
  BY <1>1, SubmitSignal, SettleSignal, FanInSignal, TickSignal, HealthSignal DEF Next, Work

\* The guarded design decides on every signal the naive one has, except those
\* of vendors its breakers keep it from calling, for any vendors and budgets
\* that suffice (guarded.go:106-108, scorer.go:86-94).
THEOREM NoSignalIsLost ==
    ASSUME BudgetsSuffice, SlowIsTooSlow
    PROVE  Spec => []NoSignalLost
<1>0. Independent \subseteq Vendors /\ "guarded" \in Designs /\ "naive" \in Designs
  BY DEF Vendors, Designs
<1>1. ASSUME Init PROVE SignalInv
  <2>1. /\ \A d \in Designs : at[d] = "answered" /\ heard[d] = {}
        /\ \A d \in Designs : \A v \in Vendors : call[d][v] = "none"
    BY <1>1 DEF Init
  <2>2. Asked
    BY <2>1 DEF Asked
  <2>3. Heard
    BY <1>0, <2>1 DEF Heard
  <2>4. \A v \in Vendors : SignalOf(v)
    BY <1>0, <2>1 DEF SignalOf, Ended
  <2> QED
    BY <2>2, <2>3, <2>4 DEF SignalInv
<1>2. IInv /\ SignalInv /\ [Next]_vars => SignalInv'
  BY NextSignal
<1>3. ASSUME IInv, SignalInv, Idle, NEW v \in Signals("naive")
      PROVE  v \in Signals("guarded") \/ observed[v].outcome = "breaker_open"
  <2>0. /\ TypeOK /\ "guarded" \in Designs /\ "naive" \in Designs
        /\ Bureau \in Vendors /\ Independent \subseteq Vendors
    BY <1>3 DEF IInv, Designs, Vendors
  <2>1. v \in Independent \cup {Bureau} /\ v \in Vendors /\ call["naive"][v] = "nil"
    BY <1>3, <2>0 DEF Signals, TypeOK
  <2>2. /\ at["guarded"] = "answered" /\ call["guarded"][v] # "calling"
        /\ SignalOf(v) /\ Heard
    BY <1>3, <2>0, <2>1 DEF Idle, SignalInv
  <2>3. call["guarded"][v] # "none"
    BY <1>3, <2>0, <2>1, <2>2 DEF SignalInv, Asked
  <2>4. Got(v)
    BY <2>1, <2>2, <2>3 DEF SignalOf, Ended
  <2>5. call["guarded"][v] = "nil" => v \in heard["guarded"] \cup {Bureau}
    BY <2>1, <2>2 DEF Heard
  <2> QED
    BY <2>4, <2>5 DEF Got, Signals
<1>4. IInv /\ SignalInv => NoSignalLost
  BY <1>3 DEF NoSignalLost
<1> QED
  BY <1>1, <1>2, <1>4, Invariance, PTL DEF Spec
=============================================================================

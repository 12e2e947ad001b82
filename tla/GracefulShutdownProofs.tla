----------------------- MODULE GracefulShutdownProofs -----------------------
(* Type correctness of GracefulShutdown, that an accepted request is cut   *)
(* off by nothing but the timeout, and that a drain delay longer than      *)
(* UnhealthyThreshold health checks is enough for no routed request to be  *)
(* refused; for all requests, times and thresholds.                        *)
EXTENDS GracefulShutdown, TLAPS

USE DEF Transports

LongEnough == UnhealthyThreshold * Interval < DrainDelay

Threshold == IF routing THEN UnhealthyThreshold ELSE HealthyThreshold

\* An error in the channel came from a listener that failed.
Failures == (IF listener["http"] = "failed" THEN 1 ELSE 0)
          + (IF listener["grpc"] = "failed" THEN 1 ELSE 0)

TInv ==
    /\ TypeOK
    /\ streak < Threshold
    /\ serveErrs <= Failures

\* What main has done so far.
Phases ==
    /\ main # "serving" => ~ready
    /\ main \in {"starting", "serving"} => drainLeft = DrainDelay
    /\ main \in {"starting", "serving", "sleeping"} => \A t \in Transports : drain[t] = "notCalled"
    /\ main = "exited" => \A t \in Transports : drain[t] = "done"
    /\ \A t \in Transports : listener[t] = "closed" => drain[t] \in {"waiting", "done"}
    /\ \A t \in Transports : drain[t] \in {"waiting", "done"} => listener[t] \in {"closed", "failed"}
    /\ \A t \in Transports : drain[t] = "done" =>
           \A r \in Requests : Via[r] = t => request[r] # "inFlight"
    /\ \A r \in Requests : request[r] = "cut" => timeoutLeft = 0
    /\ routing => listener["http"] # "starting"

\* The checks still to fail before the target deregisters end before the
\* sleep does.
Deregisters ==
    /\ main = "sleeping" /\ routing =>
         UnhealthyThreshold * Interval + checkLeft < drainLeft + streak * Interval + Interval
    /\ main \in {"draining", "exited"} => ~routing

-----------------------------------------------------------------------------
(* Arithmetic.                                                             *)

\* A product of naturals is a natural.
LEMMA ProductNat == \A m, n \in Nat : m * n \in Nat
  OBVIOUS

\* One more check takes one Interval more.
LEMMA OneMore == \A m, n \in Nat : (m + 1) * n = m * n + n
  OBVIOUS

\* More checks take no less time.
LEMMA ProductMonotone == \A k, m, n \in Nat : k <= m => k * n <= m * n
  OBVIOUS

-----------------------------------------------------------------------------
(* Types.                                                                  *)

\* The Boolean variables, apart from the rest.
Flags == ready \in BOOLEAN /\ signalled \in BOOLEAN /\ routing \in BOOLEAN

\* The flags stay Booleans.
LEMMA FlagsStep == Flags /\ [Next]_vars => Flags'
<1> USE DEF Flags, processVars, serverVars, balancerVars, timerVars
<1>1. Flags /\ Main => Flags'
  BY DEF Main, SetReady, TurnUnready, WakeUp, Exit
<1>2. Flags /\ Signal => Flags'
  BY DEF Signal
<1>3. ASSUME NEW t \in Transports PROVE Flags /\ (Goroutines(t) \/ ServeFails(t)) => Flags'
  BY DEF Goroutines, Listen, StopAccepting, Drained, ForceClose, ServeFails
<1>4. ASSUME NEW r \in Requests PROVE Flags /\ (Arrive(r) \/ Answer(r)) => Flags'
  BY DEF Arrive, Answer
<1>5. Flags /\ HealthCheck => Flags'
  <2>1. ASSUME Flags, HealthCheck PROVE routing' \in BOOLEAN
    <3>1. routing' = routing \/ routing' = ~routing
      BY <2>1 DEF HealthCheck
    <3> QED
      BY <2>1, <3>1
  <2> QED
    BY <2>1 DEF HealthCheck
<1>6. Flags /\ Tick => Flags'
  BY DEF Tick
<1>7. Flags /\ UNCHANGED vars => Flags'
  BY DEF vars
<1> QED
  BY <1>1, <1>2, <1>3, <1>4, <1>5, <1>6, <1>7 DEF Next

\* A process starts well typed.
LEMMA InitTInv == Init => TInv
<1> SUFFICES ASSUME Init PROVE TInv
  OBVIOUS
<1>1. Flags
  BY DEF Init, Flags
<1>2. serveErrs \in 0..2 /\ serveErrs <= Failures
  BY DEF Init, Failures
<1>3. streak < Threshold /\ streak \in 0..(HealthyThreshold + UnhealthyThreshold)
  BY TimesAssumption DEF Init, Threshold
<1> QED
  BY <1>1, <1>2, <1>3, ViaAssumption, TimesAssumption DEF Init, TInv, TypeOK, Flags

\* Every step of main, of its goroutines or of the others keeps the types.
LEMMA StepTInv == TInv /\ [Next]_vars => TInv'
<1> SUFFICES ASSUME TInv, [Next]_vars PROVE TInv'
  OBVIOUS
<1> USE ViaAssumption, TimesAssumption DEF TInv, TypeOK, Threshold, Failures,
        processVars, serverVars, balancerVars, timerVars
<1>0. Flags'
  BY FlagsStep DEF Flags
<1>1. CASE Main
  <2>1. serveErrs' \in 0..2 /\ serveErrs' <= serveErrs /\ listener' = listener
    BY <1>1 DEF Main, SetReady, TurnUnready, WakeUp, Exit
  <2>2. Failures' = Failures /\ Threshold' = Threshold /\ streak' = streak
    BY <1>1, <2>1 DEF Main, SetReady, TurnUnready, WakeUp, Exit
  <2>3. drain' \in [Transports -> {"notCalled", "called", "waiting", "done"}]
    BY <1>1 DEF Main, SetReady, TurnUnready, WakeUp, Exit
  <2>4. main' \in {"starting", "serving", "sleeping", "draining", "exited"}
    BY <1>1 DEF Main, SetReady, TurnUnready, WakeUp, Exit
  <2>5. UNCHANGED <<timerVars, balancerVars, request>>
    BY <1>1 DEF Main, SetReady, TurnUnready, WakeUp, Exit
  <2> QED
    BY <1>0, <2>1, <2>2, <2>3, <2>4, <2>5 DEF Flags
<1>2. CASE Signal
  BY <1>2 DEF Signal
<1>3. ASSUME NEW t \in Transports, Listen(t) PROVE TInv'
  BY <1>3 DEF Listen
<1>4. ASSUME NEW t \in Transports, StopAccepting(t) PROVE TInv'
  BY <1>4 DEF StopAccepting
<1>5. ASSUME NEW t \in Transports, Drained(t) PROVE TInv'
  BY <1>5 DEF Drained
<1>6. ASSUME NEW t \in Transports, ForceClose(t) PROVE TInv'
  BY <1>6 DEF ForceClose
<1>7. ASSUME NEW t \in Transports, ServeFails(t) PROVE TInv'
  <2>1. listener[t] # "failed" /\ listener' = [listener EXCEPT ![t] = "failed"]
    BY <1>7 DEF ServeFails
  <2>2. Failures' = Failures + 1
    BY <2>1
  <2>3. serveErrs' = serveErrs + 1 /\ serveErrs' \in 0..2
    BY <1>7, <2>2 DEF ServeFails
  <2> QED
    BY <1>7, <2>1, <2>2, <2>3 DEF ServeFails
<1>8. ASSUME NEW r \in Requests, Arrive(r) \/ Answer(r) PROVE TInv'
  BY <1>8 DEF Arrive, Answer
<1>9. CASE HealthCheck
  <2>1. /\ UNCHANGED <<processVars, serverVars, timerVars, request>>
        /\ checkLeft' = Interval
    BY <1>9 DEF HealthCheck
  <2>2. \/ routing' = routing /\ streak' = 0
        \/ routing' = ~routing /\ streak' = 0
        \/ routing' = routing /\ streak' = streak + 1 /\ streak + 1 # Threshold
    BY <1>9 DEF HealthCheck
  <2>3. Threshold' >= 1 /\ (routing' = routing => Threshold' = Threshold)
    OBVIOUS
  <2>4. streak' < Threshold' /\ streak' \in 0..(HealthyThreshold + UnhealthyThreshold)
    BY <2>2, <2>3
  <2> QED
    BY <1>0, <2>1, <2>4 DEF Flags
<1>10. CASE Tick
  BY <1>10 DEF Tick
<1>11. CASE UNCHANGED vars
  BY <1>11 DEF vars
<1> QED
  BY <1>1, <1>2, <1>3, <1>4, <1>5, <1>6, <1>7, <1>8, <1>9, <1>10, <1>11
  DEF Next, Goroutines

\* Type correctness, for all requests, times and thresholds; the channel of
\* errors needs no more than its two places (main.go:86).
THEOREM TypeCorrect == Spec => []TypeOK
<1>1. TInv => TypeOK
  BY DEF TInv
<1> QED
  BY <1>1, InitTInv, StepTInv, PTL DEF Spec

-----------------------------------------------------------------------------
(* The phases of the shutdown.                                             *)

\* The phases hold at the start, and each group of actions preserves them.
LEMMA InitPhases == Init => Phases
  BY DEF Init, Phases

\* What main does keeps listeners and drains in step with it.
LEMMA MainPhases == TInv /\ Phases /\ Main => Phases'
<1> SUFFICES ASSUME TInv, Phases, Main PROVE Phases'
  OBVIOUS
<1> USE DEF TInv, TypeOK, Phases, serverVars, balancerVars, timerVars
<1>1. CASE SetReady
  BY <1>1 DEF SetReady
<1>2. CASE TurnUnready
  BY <1>2 DEF TurnUnready
<1>3. CASE WakeUp
  BY <1>3 DEF WakeUp
<1>4. CASE Exit
  BY <1>4 DEF Exit
<1> QED
  BY <1>1, <1>2, <1>3, <1>4 DEF Main

\* So does what the goroutines that serve and drain do.
LEMMA GoroutinePhases ==
  ASSUME TInv, Phases, NEW t \in Transports, Goroutines(t) \/ ServeFails(t)
  PROVE  Phases'
<1> USE DEF TInv, TypeOK, Phases, Alive, processVars, balancerVars, timerVars
<1>1. CASE Listen(t)
  BY <1>1 DEF Listen
<1>2. CASE ServeFails(t)
  BY <1>2 DEF ServeFails
<1>3. CASE StopAccepting(t)
  BY <1>3 DEF StopAccepting
<1>4. CASE Drained(t)
  BY <1>4 DEF Drained, InFlight
<1>5. CASE ForceClose(t)
  BY <1>5, ViaAssumption DEF ForceClose, InFlight
<1> QED
  BY <1>1, <1>2, <1>3, <1>4, <1>5 DEF Goroutines

\* So do requests that arrive and are answered.
LEMMA RequestPhases ==
  ASSUME TInv, Phases, NEW r \in Requests, Arrive(r) \/ Answer(r)
  PROVE  Phases'
<1> USE ViaAssumption DEF TInv, TypeOK, Phases, processVars, serverVars, balancerVars, timerVars
<1>1. CASE Arrive(r)
  BY <1>1 DEF Arrive
<1>2. CASE Answer(r)
  BY <1>2 DEF Answer
<1> QED
  BY <1>1, <1>2

\* Every step keeps the phases.
LEMMA StepPhases == TInv /\ Phases /\ [Next]_vars => Phases'
<1> SUFFICES ASSUME TInv, Phases, [Next]_vars PROVE Phases'
  OBVIOUS
<1> USE DEF TInv, TypeOK, Phases, processVars, serverVars, balancerVars, timerVars
<1>1. CASE Signal
  BY <1>1 DEF Signal
<1>2. CASE HealthCheck
  BY <1>2 DEF HealthCheck, Readyz
<1>3. CASE Tick
  BY <1>3, TimesAssumption DEF Tick
<1>4. CASE UNCHANGED vars
  BY <1>4 DEF vars
<1> QED
  BY <1>1, <1>2, <1>3, <1>4, MainPhases, GoroutinePhases, RequestPhases DEF Next

-----------------------------------------------------------------------------
(* In-flight requests.                                                     *)

\* An accepted request is neither cut off before the whole shutdown timeout
\* has passed nor left behind by the exit of the process, however many there
\* are and whatever fails (main.go:124-130).
THEOREM AcceptedSurvives == Spec => []InFlightSurvives
<1>1. Init => TInv /\ Phases
  BY InitTInv, InitPhases
<1>2. TInv /\ Phases /\ [Next]_vars => TInv' /\ Phases'
  BY StepTInv, StepPhases
<1>3. TInv /\ Phases => InFlightSurvives
  BY ViaAssumption DEF TInv, TypeOK, Phases, InFlightSurvives
<1> QED
  BY <1>1, <1>2, <1>3, PTL DEF Spec

-----------------------------------------------------------------------------
(* The contract with the callers.                                          *)

\* The doors start unopened.
LEMMA ContractInit == Init => Contract!Init
  BY DEF Init, Contract!Init

\* Every step of the process is a step of the contract, or none.
LEMMA ContractStep == TInv /\ Phases /\ [Next]_vars => [Contract!Next]_Contract!vars
<1> SUFFICES ASSUME TInv, Phases, [Next]_vars PROVE [Contract!Next]_Contract!vars
  OBVIOUS
<1> USE DEF processVars, serverVars, balancerVars, timerVars
<1>0. TypeOK
  BY DEF TInv
<1>1. ASSUME UNCHANGED <<main, timeoutLeft, listener, request>>
      PROVE  UNCHANGED Contract!vars
  BY <1>1 DEF Contract!vars
<1>2. CASE SetReady \/ TurnUnready
  BY <1>0, <1>2 DEF SetReady, TurnUnready, Contract!vars
<1>3. CASE WakeUp
  BY <1>3 DEF WakeUp, Contract!Next, Contract!TimeOut, Contract!vars
<1>4. CASE Exit
  <2>1. /\ \A t \in Transports : listener[t] \in {"closed", "failed"}
        /\ \A r \in Requests : request[r] # "inFlight"
    BY <1>4, ViaAssumption DEF Exit, Phases
  <2>2. Contract!Go
    BY <1>4, <2>1 DEF Exit, Contract!Go
  <2> QED
    BY <2>2 DEF Contract!Next
<1>5. ASSUME NEW t \in Transports, Listen(t) PROVE [Contract!Next]_Contract!vars
  <2>1. Contract!Open(t)
    BY <1>0, <1>5 DEF Listen, Alive, TypeOK, Contract!Open
  <2> QED
    BY <2>1 DEF Contract!Next
<1>6. ASSUME NEW t \in Transports, ServeFails(t) PROVE [Contract!Next]_Contract!vars
  <2>1. Contract!Shut(t)
    BY <1>0, <1>6 DEF ServeFails, TypeOK, Contract!Shut
  <2> QED
    BY <2>1 DEF Contract!Next
<1>7. ASSUME NEW t \in Transports, StopAccepting(t) PROVE [Contract!Next]_Contract!vars
  <2>1. CASE listener[t] \in {"starting", "open"}
    <3>1. Contract!Shut(t)
      BY <1>0, <1>7, <2>1 DEF StopAccepting, TypeOK, Contract!Shut
    <3> QED
      BY <3>1 DEF Contract!Next
  <2>2. CASE listener[t] \in {"closed", "failed"}
    BY <1>0, <1>7, <2>2 DEF StopAccepting, TypeOK, Contract!vars
  <2> QED
    BY <1>0, <2>1, <2>2 DEF TypeOK
<1>8. ASSUME NEW t \in Transports, Drained(t) PROVE [Contract!Next]_Contract!vars
  BY <1>1, <1>8 DEF Drained
<1>9. ASSUME NEW t \in Transports, ForceClose(t) PROVE [Contract!Next]_Contract!vars
  <2>1. main = "draining" /\ listener[t] \in {"closed", "failed"} /\ timeoutLeft = 0
    BY <1>0, <1>9 DEF ForceClose, Phases, TypeOK
  <2>2. Contract!CutOff(t)
    BY <1>9, <2>1 DEF ForceClose, InFlight, Contract!CutOff
  <2> QED
    BY <2>2 DEF Contract!Next
<1>10. ASSUME NEW r \in Requests, Arrive(r) PROVE [Contract!Next]_Contract!vars
  <2>0. Via[r] \in Transports
    BY ViaAssumption
  <2>1. CASE Alive /\ listener[Via[r]] = "open"
    <3>1. Contract!Take(r)
      BY <1>10, <2>0, <2>1 DEF Arrive, Alive, Contract!Take
    <3> QED
      BY <3>1 DEF Contract!Next
  <2>2. CASE ~(Alive /\ listener[Via[r]] = "open")
    <3>1. listener[Via[r]] # "open"
      BY <2>0, <2>2 DEF Alive, Phases
    <3>2. Contract!TurnAway(r)
      BY <1>10, <2>0, <2>2, <3>1 DEF Arrive, Contract!TurnAway
    <3> QED
      BY <3>2 DEF Contract!Next
  <2> QED
    BY <2>1, <2>2
<1>11. ASSUME NEW r \in Requests, Answer(r) PROVE [Contract!Next]_Contract!vars
  <2>1. Contract!Answer(r)
    BY <1>11 DEF Answer, Alive, Contract!Answer
  <2> QED
    BY <2>1 DEF Contract!Next
<1>12. CASE Tick
  <2>1. UNCHANGED <<main, listener, request>>
        /\ (timeoutLeft' # timeoutLeft => main = "draining" /\ timeoutLeft > 0)
    BY <1>12 DEF Tick
  <2>2. CASE timeoutLeft' = 0 /\ main = "draining"
    BY <2>1, <2>2 DEF Contract!Next, Contract!TimeOut
  <2>3. CASE ~(timeoutLeft' = 0 /\ main = "draining")
    BY <1>0, <2>1, <2>3 DEF TypeOK, Contract!vars
  <2> QED
    BY <2>2, <2>3
<1>13. CASE Signal \/ HealthCheck
  BY <1>1, <1>13 DEF Signal, HealthCheck
<1>14. CASE UNCHANGED vars
  BY <1>1, <1>14 DEF vars
<1> QED
  BY <1>2, <1>3, <1>4, <1>5, <1>6, <1>7, <1>8, <1>9, <1>10, <1>11, <1>12, <1>13, <1>14
     DEF Next, Main, Goroutines

\* The process keeps its contract for any requests, times and thresholds,
\* whatever fails: none is taken after its door is shut, cut off in time, or
\* left inside (main.go:124-130, 143-167).
THEOREM KeepsContract == Spec => ImplementsContract
<1>1. Init => TInv /\ Phases
  BY InitTInv, InitPhases
<1>2. TInv /\ Phases /\ [Next]_vars => TInv' /\ Phases'
  BY StepTInv, StepPhases
<1> QED
  BY <1>1, <1>2, ContractInit, ContractStep, PTL DEF Spec, ImplementsContract, Contract!Spec

-----------------------------------------------------------------------------
(* The drain delay.                                                        *)

\* The target deregisters before the listener closes: what main, the health
\* checks and time each contribute.
LEMMA MainDeregisters ==
  ASSUME LongEnough, TInv, Phases, Deregisters, Main
  PROVE  Deregisters'
<1> USE DEF TInv, TypeOK, Deregisters, serverVars, balancerVars, timerVars
<1>1. CASE SetReady
  BY <1>1 DEF SetReady
<1>2. CASE TurnUnready
  <2>1. drainLeft = DrainDelay /\ checkLeft <= Interval
    BY <1>2, TimesAssumption DEF TurnUnready, Phases
  <2>2. streak * Interval \in Nat /\ UnhealthyThreshold * Interval \in Nat
    BY ProductNat, TimesAssumption
  <2>3. UnhealthyThreshold * Interval + checkLeft < drainLeft + streak * Interval + Interval
    BY <2>1, <2>2, TimesAssumption DEF LongEnough
  <2> QED
    BY <1>2, <2>3 DEF TurnUnready
<1>3. CASE WakeUp
  <2>1. main = "sleeping" /\ drainLeft = 0 /\ main' = "draining" /\ routing' = routing
    BY <1>3 DEF WakeUp
  <2>2. ASSUME routing PROVE FALSE
    <3>1. UnhealthyThreshold * Interval + checkLeft < streak * Interval + Interval
      <4>1. UnhealthyThreshold * Interval + checkLeft < drainLeft + streak * Interval + Interval
        BY <2>1, <2>2
      <4>2. streak * Interval \in Nat /\ UnhealthyThreshold * Interval \in Nat
        BY ProductNat, TimesAssumption
      <4> QED
        BY <2>1, <4>1, <4>2, TimesAssumption
    <3>2. streak + 1 <= UnhealthyThreshold
      BY <2>2, TimesAssumption DEF Threshold
    <3>3. (streak + 1) * Interval <= UnhealthyThreshold * Interval
      BY <3>2, TimesAssumption, ProductMonotone
    <3>4. (streak + 1) * Interval = streak * Interval + Interval
      BY OneMore, TimesAssumption
    <3>5. streak * Interval \in Nat /\ UnhealthyThreshold * Interval \in Nat
      BY ProductNat, TimesAssumption
    <3> QED
      BY <3>1, <3>3, <3>4, <3>5, TimesAssumption
  <2> QED
    BY <2>1, <2>2
<1>4. CASE Exit
  BY <1>4 DEF Exit
<1> QED
  BY <1>1, <1>2, <1>3, <1>4 DEF Main

\* A failed check adds an Interval to what is left and one to the streak.
LEMMA CheckDeregisters ==
  ASSUME LongEnough, TInv, Phases, Deregisters, HealthCheck
  PROVE  Deregisters'
<1>1. /\ checkLeft = 0 /\ checkLeft' = Interval
      /\ UNCHANGED <<main, ready, drainLeft>>
  BY DEF HealthCheck, processVars, timerVars
<1>2. ASSUME main # "serving", ~routing PROVE ~routing'
  <2>1. routing = FALSE
    BY <1>2 DEF TInv, TypeOK
  <2>2. Readyz = FALSE
    BY <1>2 DEF Readyz, Phases
  <2> QED
    BY <2>1, <2>2 DEF HealthCheck
<1>3. ASSUME main = "sleeping", routing' PROVE routing /\ streak' = streak + 1
  BY <1>3, <1>2, TimesAssumption DEF HealthCheck, Readyz, Phases, TInv, TypeOK
<1>4. ASSUME main = "sleeping", routing'
      PROVE  UnhealthyThreshold * Interval + checkLeft'
               < drainLeft + streak' * Interval + Interval
  <2>1. streak \in Nat /\ drainLeft \in Nat /\ Interval \in Nat /\ UnhealthyThreshold \in Nat
    BY TimesAssumption DEF TInv, TypeOK
  <2>2. UnhealthyThreshold * Interval < drainLeft + streak * Interval + Interval
    <3>1. UnhealthyThreshold * Interval + checkLeft < drainLeft + streak * Interval + Interval
      BY <1>3, <1>4 DEF Deregisters
    <3>2. UnhealthyThreshold * Interval \in Nat
      BY <2>1, ProductNat
    <3> QED
      BY <1>1, <3>1, <3>2
  <2>3. streak' * Interval = streak * Interval + Interval
    BY <1>3, <1>4, <2>1, OneMore
  <2>4. streak * Interval \in Nat /\ UnhealthyThreshold * Interval \in Nat
    BY <2>1, ProductNat
  <2> QED
    BY <1>1, <2>1, <2>2, <2>3, <2>4
<1> QED
  BY <1>1, <1>2, <1>4 DEF Deregisters

\* A tick takes one from both sides of the inequality.
LEMMA TickDeregisters ==
  ASSUME LongEnough, TInv, Phases, Deregisters, Tick
  PROVE  Deregisters'
<1>1. ASSUME main = "sleeping", routing
      PROVE  UnhealthyThreshold * Interval + checkLeft'
               < drainLeft' + streak * Interval + Interval
  <2>1. UnhealthyThreshold * Interval + checkLeft < drainLeft + streak * Interval + Interval
    BY <1>1 DEF Deregisters
  <2>2. checkLeft' = checkLeft - 1 /\ drainLeft' = drainLeft - 1
    BY <1>1 DEF Tick
  <2>3. checkLeft \in Nat /\ drainLeft \in Nat /\ streak \in Nat
    BY TimesAssumption DEF TInv, TypeOK
  <2>4. streak * Interval \in Nat /\ UnhealthyThreshold * Interval \in Nat
    BY <2>3, ProductNat, TimesAssumption
  <2> QED
    BY <2>1, <2>2, <2>3, <2>4, TimesAssumption
<1> QED
  BY <1>1 DEF Deregisters, Tick, processVars

\* Every step keeps the argument about time.
LEMMA StepDeregisters ==
  ASSUME LongEnough, TInv, Phases, Deregisters, [Next]_vars
  PROVE  Deregisters'
<1>1. ASSUME UNCHANGED <<main, drainLeft, routing, streak, checkLeft>> PROVE Deregisters'
  BY <1>1 DEF Deregisters
<1>2. ASSUME NEW t \in Transports, Goroutines(t) \/ ServeFails(t) PROVE Deregisters'
  BY <1>1, <1>2 DEF Goroutines, Listen, StopAccepting, Drained, ForceClose, ServeFails,
                    processVars, balancerVars, timerVars
<1>3. ASSUME NEW r \in Requests, Arrive(r) \/ Answer(r) PROVE Deregisters'
  BY <1>1, <1>3 DEF Arrive, Answer, processVars, balancerVars, timerVars
<1>4. CASE Signal \/ UNCHANGED vars
  BY <1>1, <1>4 DEF Signal, vars, processVars, balancerVars, timerVars
<1> QED
  BY <1>2, <1>3, <1>4, MainDeregisters, CheckDeregisters, TickDeregisters DEF Next

\* Deregistered in time, a request routed here finds the listener open.
LEMMA StepNothingRefused ==
  ASSUME TInv, Phases, Deregisters, NothingRefused, [Next]_vars
  PROVE  NothingRefused'
<1> USE DEF TInv, TypeOK, NothingRefused
<1>1. ASSUME UNCHANGED request, listener'["http"] # "failed" => listener["http"] # "failed"
      PROVE  NothingRefused'
  BY <1>1
<1>2. CASE Main \/ Signal \/ HealthCheck \/ Tick \/ UNCHANGED vars
  BY <1>1, <1>2 DEF Main, SetReady, TurnUnready, WakeUp, Exit, Signal, HealthCheck, Tick,
                    vars, serverVars
<1>3. ASSUME NEW t \in Transports, Goroutines(t) \/ ServeFails(t) PROVE NothingRefused'
  BY <1>3 DEF Goroutines, Listen, StopAccepting, Drained, ForceClose, ServeFails
<1>4. ASSUME NEW r \in Requests, Arrive(r) PROVE NothingRefused'
  <2>1. Via[r] = "http" /\ listener["http"] # "failed" => Alive /\ listener["http"] = "open"
    BY <1>4 DEF Arrive, Alive, Phases, Deregisters
  <2> QED
    BY <1>4, <2>1, ViaAssumption DEF Arrive, serverVars
<1>5. ASSUME NEW r \in Requests, Answer(r) PROVE NothingRefused'
  BY <1>5 DEF Answer, serverVars
<1> QED
  BY <1>2, <1>3, <1>4, <1>5 DEF Next

\* If the drain delay is longer than UnhealthyThreshold health checks, no
\* request that the load balancer routes here is refused, unless the HTTP
\* server failed; for all requests, times and thresholds (main.go:126-129).
THEOREM NothingIsRefused == ASSUME LongEnough PROVE Spec => []NothingRefused
<1> DEFINE Inv == TInv /\ Phases /\ Deregisters /\ NothingRefused
<1>1. Init => Inv
  BY InitTInv, InitPhases DEF Init, Deregisters, NothingRefused
<1>2. Inv /\ [Next]_vars => Inv'
  BY StepTInv, StepPhases, StepDeregisters, StepNothingRefused
<1>3. Inv => NothingRefused
  OBVIOUS
<1> QED
  BY <1>1, <1>2, <1>3, PTL DEF Spec

\* And the target has deregistered before the HTTP server stops accepting, as
\* main.go:126-127 promises: what the deployed values lack is LongEnough, and
\* nothing else.
THEOREM DeregistersInTime == ASSUME LongEnough PROVE Spec => []DeregisteredBeforeClosing
<1> DEFINE Inv == TInv /\ Phases /\ Deregisters
<1>1. Init => Inv
  BY InitTInv, InitPhases DEF Init, Deregisters
<1>2. Inv /\ [Next]_vars => Inv'
  BY StepTInv, StepPhases, StepDeregisters
<1>3. Inv => DeregisteredBeforeClosing
  BY DEF TInv, TypeOK, Phases, Deregisters, DeregisteredBeforeClosing
<1> QED
  BY <1>1, <1>2, <1>3, PTL DEF Spec
=============================================================================

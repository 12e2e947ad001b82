-------------------------- MODULE GracefulShutdown --------------------------
(* The life of a server process (src/cmd/server/main.go): it starts the    *)
(* HTTP and the gRPC server, reports itself ready, and, on a signal or on  *)
(* a server's error, turns unready, waits for the load balancer to notice, *)
(* and drains both servers under one timeout.                              *)
(*                                                                         *)
(* External, as the code and deploy/terraform use them: net/http.Server    *)
(* and grpc.Server (they stop accepting, then wait for requests in         *)
(* flight), and the load balancer, which calls /readyz every Interval and  *)
(* routes HTTP requests while the target is healthy.  gRPC callers are     *)
(* internal and come directly.                                             *)
(*                                                                         *)
(* Time passes in ticks; timers are countdowns.  A handler may never       *)
(* answer.                                                                 *)
EXTENDS Naturals

CONSTANTS
    Requests,           \* requests that may come
    Via,                \* the transport each one uses
    DrainDelay,         \* ShutdownDrainDelay
    ShutdownTimeout,    \* ShutdownTimeout
    Interval,           \* between two health checks
    HealthyThreshold,   \* checks in a row to become healthy
    UnhealthyThreshold  \* and to become unhealthy

Transports == {"http", "grpc"}

ASSUME ViaAssumption == Via \in [Requests -> Transports]
ASSUME TimesAssumption ==
    /\ DrainDelay \in Nat /\ ShutdownTimeout \in Nat
    /\ Interval \in Nat \ {0}
    /\ HealthyThreshold \in Nat \ {0} /\ UnhealthyThreshold \in Nat \ {0}

VARIABLES
    main,        \* where main is
    ready,       \* the probe
    signalled,   \* SIGTERM or SIGINT has come: rootCtx is done
    serveErrs,   \* errors in the channel serveErr
    listener,    \* each transport's listener
    drain,       \* each transport's goroutine in gracefulShutdown
    drainLeft,   \* of the sleep in gracefulShutdown
    timeoutLeft, \* of the context of gracefulShutdown
    request,     \* each request
    routing,     \* the load balancer routes requests to this process
    streak,      \* its checks in a row that contradict `routing`
    checkLeft    \* until its next check

processVars  == <<main, ready, signalled, serveErrs>>
serverVars   == <<listener, drain>>
balancerVars == <<routing, streak, checkLeft>>
timerVars    == <<drainLeft, timeoutLeft>>
vars == <<processVars, serverVars, balancerVars, timerVars, request>>

Init ==
    /\ main = "starting"
    /\ ready = FALSE
    /\ signalled = FALSE
    /\ serveErrs = 0
    /\ listener = [t \in Transports |-> "starting"]
    /\ drain = [t \in Transports |-> "notCalled"]
    /\ drainLeft = DrainDelay
    /\ timeoutLeft = ShutdownTimeout
    /\ request = [r \in Requests |-> "idle"]
    /\ routing = FALSE
    /\ streak = 0
    /\ checkLeft = Interval

Alive == main # "exited"

InFlight(t) == {r \in Requests : Via[r] = t /\ request[r] = "inFlight"}

-----------------------------------------------------------------------------
(* The goroutines that serve.                                              *)

Listen(t) ==
    /\ Alive
    /\ listener[t] = "starting"
    /\ listener' = [listener EXCEPT ![t] = "open"]
    /\ UNCHANGED <<processVars, drain, balancerVars, timerVars, request>>

\* Mutation: listening is tried again after an error, and each one is sent.
ServeFailsAgain(t) ==
    /\ Alive
    /\ listener[t] \in {"starting", "open"}
    /\ serveErrs' = serveErrs + 1
    /\ UNCHANGED <<main, ready, signalled, listener, drain, balancerVars, timerVars, request>>

\* Listening or accepting fails.  (The error that Serve returns because it was
\* told to stop is filtered out or never received.)
ServeFails(t) ==
    /\ Alive
    /\ listener[t] \in {"starting", "open"}
    /\ listener' = [listener EXCEPT ![t] = "failed"]
    /\ serveErrs' = serveErrs + 1
    /\ UNCHANGED <<main, ready, signalled, drain, balancerVars, timerVars, request>>

-----------------------------------------------------------------------------
(* main and gracefulShutdown.                                              *)

\* Mutation: readiness is left to be set later.
SetReadyForgotten ==
    /\ main = "starting"
    /\ main' = "serving"
    /\ UNCHANGED <<ready, signalled, serveErrs, serverVars, balancerVars, timerVars, request>>

SetReady ==
    /\ main = "starting"
    /\ ready' = TRUE
    /\ main' = "serving"
    /\ UNCHANGED <<signalled, serveErrs, serverVars, balancerVars, timerVars, request>>

Signal ==
    /\ Alive /\ ~signalled
    /\ signalled' = TRUE
    /\ UNCHANGED <<main, ready, serveErrs, serverVars, balancerVars, timerVars, request>>

\* Mutation: the probe stays ready while the process drains.
TurnUnreadyForgotten ==
    /\ main = "serving"
    /\ \/ signalled /\ UNCHANGED serveErrs
       \/ serveErrs > 0 /\ serveErrs' = serveErrs - 1
    /\ main' = "sleeping"
    /\ UNCHANGED <<ready, signalled, serverVars, balancerVars, timerVars, request>>

\* main's select, and the first line of gracefulShutdown.
TurnUnready ==
    /\ main = "serving"
    /\ \/ signalled /\ UNCHANGED serveErrs
       \/ serveErrs > 0 /\ serveErrs' = serveErrs - 1
    /\ ready' = FALSE
    /\ main' = "sleeping"
    /\ UNCHANGED <<signalled, serverVars, balancerVars, timerVars, request>>

WakeUp ==
    /\ main = "sleeping" /\ drainLeft = 0
    /\ main' = "draining"
    /\ drain' = [t \in Transports |-> "called"]
    /\ UNCHANGED <<ready, signalled, serveErrs, listener, balancerVars, timerVars, request>>

\* http.Server.Shutdown or grpc.Server.GracefulStop begins: the listener is
\* closed.
StopAccepting(t) ==
    /\ Alive
    /\ drain[t] = "called"
    /\ drain' = [drain EXCEPT ![t] = "waiting"]
    /\ listener' = [listener EXCEPT ![t] = IF @ = "failed" THEN @ ELSE "closed"]
    /\ UNCHANGED <<processVars, balancerVars, timerVars, request>>

\* Mutation: Close where Shutdown should be.
DrainedAtOnce(t) ==
    /\ drain[t] = "waiting"
    /\ drain' = [drain EXCEPT ![t] = "done"]
    /\ UNCHANGED <<processVars, listener, balancerVars, timerVars, request>>

Drained(t) ==
    /\ drain[t] = "waiting"
    /\ InFlight(t) = {}
    /\ drain' = [drain EXCEPT ![t] = "done"]
    /\ UNCHANGED <<processVars, listener, balancerVars, timerVars, request>>

\* Mutation: GracefulStop is not raced against the deadline.
ForceHTTPOnly(t) ==
    /\ drain[t] = "waiting" /\ timeoutLeft = 0
    /\ t = "http"
    /\ request' = [r \in Requests |-> IF r \in InFlight(t) THEN "cut" ELSE request[r]]
    /\ drain' = [drain EXCEPT ![t] = "done"]
    /\ UNCHANGED <<processVars, listener, balancerVars, timerVars>>

\* Mutation: connections are closed without waiting for the timeout.
ForceCloseAtOnce(t) ==
    /\ drain[t] = "waiting"
    /\ request' = [r \in Requests |-> IF r \in InFlight(t) THEN "cut" ELSE request[r]]
    /\ drain' = [drain EXCEPT ![t] = "done"]
    /\ UNCHANGED <<processVars, listener, balancerVars, timerVars>>

\* The timeout passes first: http.Server.Close or grpc.Server.Stop closes the
\* connections and waits for no handler.
ForceClose(t) ==
    /\ drain[t] = "waiting" /\ timeoutLeft = 0
    /\ request' = [r \in Requests |-> IF r \in InFlight(t) THEN "cut" ELSE request[r]]
    /\ drain' = [drain EXCEPT ![t] = "done"]
    /\ UNCHANGED <<processVars, listener, balancerVars, timerVars>>

\* wg.Wait returns, and main with it.
Exit ==
    /\ main = "draining"
    /\ \A t \in Transports : drain[t] = "done"
    /\ main' = "exited"
    /\ UNCHANGED <<ready, signalled, serveErrs, serverVars, balancerVars, timerVars, request>>

-----------------------------------------------------------------------------
(* Requests and the load balancer.                                         *)

Arrive(r) ==
    /\ request[r] = "idle"
    /\ Via[r] = "http" => routing
    /\ request' = [request EXCEPT
                     ![r] = IF Alive /\ listener[Via[r]] = "open" THEN "inFlight" ELSE "refused"]
    /\ UNCHANGED <<processVars, serverVars, balancerVars, timerVars>>

Answer(r) ==
    /\ Alive
    /\ request[r] = "inFlight"
    /\ request' = [request EXCEPT ![r] = "answered"]
    /\ UNCHANGED <<processVars, serverVars, balancerVars, timerVars>>

\* GET /readyz is answered 200.
Readyz == Alive /\ listener["http"] = "open" /\ ready

HealthCheck ==
    LET threshold == IF routing THEN UnhealthyThreshold ELSE HealthyThreshold
        changes   == Readyz # routing /\ streak + 1 = threshold
    IN  /\ checkLeft = 0
        /\ checkLeft' = Interval
        /\ routing' = IF changes THEN ~routing ELSE routing
        /\ streak' = IF Readyz = routing \/ changes THEN 0 ELSE streak + 1
        /\ UNCHANGED <<processVars, serverVars, timerVars, request>>

\* Time passes, but not beyond the end of the sleep or the moment of a check.
Tick ==
    /\ checkLeft > 0
    /\ main = "sleeping" => drainLeft > 0
    /\ checkLeft' = checkLeft - 1
    /\ drainLeft' = IF main = "sleeping" THEN drainLeft - 1 ELSE drainLeft
    /\ timeoutLeft' = IF main = "draining" /\ timeoutLeft > 0 THEN timeoutLeft - 1
                                                              ELSE timeoutLeft
    /\ UNCHANGED <<processVars, serverVars, routing, streak, request>>

-----------------------------------------------------------------------------
Main == SetReady \/ TurnUnready \/ WakeUp \/ Exit

\* The goroutines for one transport: the one that serves and the one that
\* drains.
Goroutines(t) == Listen(t) \/ StopAccepting(t) \/ Drained(t) \/ ForceClose(t)

Next ==
    \/ Main
    \/ Signal
    \/ \E t \in Transports : Goroutines(t) \/ ServeFails(t)
    \/ \E r \in Requests : Arrive(r) \/ Answer(r)
    \/ HealthCheck
    \/ Tick

Spec == Init /\ [][Next]_vars

\* Goroutines run and time passes; nothing is assumed of handlers, signals and
\* failures.
Fairness ==
    /\ WF_vars(Main)
    /\ \A t \in Transports : WF_vars(Goroutines(t))
    /\ WF_vars(HealthCheck)
    /\ WF_vars(Tick)

FairSpec == Spec /\ Fairness

-----------------------------------------------------------------------------
(* Properties.                                                             *)

\* Every variable has its type; the channel serveErr never needs more room
\* than its two places, so no serving goroutine blocks on it (main.go:86).
TypeOK ==
    /\ main \in {"starting", "serving", "sleeping", "draining", "exited"}
    /\ ready \in BOOLEAN /\ signalled \in BOOLEAN
    /\ serveErrs \in 0..2
    /\ listener \in [Transports -> {"starting", "open", "failed", "closed"}]
    /\ drain \in [Transports -> {"notCalled", "called", "waiting", "done"}]
    /\ drainLeft \in 0..DrainDelay
    /\ timeoutLeft \in 0..ShutdownTimeout
    /\ request \in [Requests -> {"idle", "inFlight", "answered", "refused", "cut"}]
    /\ routing \in BOOLEAN
    /\ streak \in 0..(HealthyThreshold + UnhealthyThreshold)
    /\ checkLeft \in 0..Interval

\* A request that the load balancer routes here, from start to exit, is never
\* refused for lack of a listener, unless the HTTP server itself has failed
\* (main.go:126-129, "otherwise requests routed during the gap would be
\* refused").  It takes a DrainDelay longer than UnhealthyThreshold checks.
NothingRefused ==
    listener["http"] # "failed" =>
        \A r \in Requests : Via[r] = "http" => request[r] # "refused"

\* A request accepted by either server is answered, unless the handler
\* outlasts the whole shutdown timeout: the process neither cuts it off
\* earlier nor exits under it (main.go:124-130, "without dropping in-flight
\* requests").
InFlightSurvives ==
    /\ \A r \in Requests : request[r] = "cut" => timeoutLeft = 0
    /\ main = "exited" => \A r \in Requests : request[r] # "inFlight"

Contract ==
    INSTANCE ServerContract WITH
        door     <- [t \in Transports |-> CASE listener[t] = "starting" -> "unopened"
                                            [] listener[t] = "open"     -> "open"
                                            [] OTHER                    -> "shut"],
        timedOut <- main \in {"draining", "exited"} /\ timeoutLeft = 0,
        gone     <- main = "exited"

\* Whatever fails, and whatever order its goroutines run in, the process keeps
\* the contract with its callers: no request is taken after its transport has
\* stopped accepting, none is cut off before draining has timed out, none is
\* left inside (main.go:124-130, 143-167).
ImplementsContract == Contract!Spec

\* The target deregisters before the HTTP server stops accepting
\* (main.go:126-127, "so the ALB health check fails and the target deregisters
\* BEFORE we stop accepting connections").
DeregisteredBeforeClosing == listener["http"] = "closed" => ~routing

\* Once asked to stop, or once a server has failed, the process exits, even if
\* a handler never returns (main.go:153-154, "so a stuck RPC can't hang the
\* deploy forever").
Exits == (signalled \/ serveErrs > 0) ~> (main = "exited")

\* A process that starts well is given traffic (main.go:107, "mark ready so
\* the ALB starts routing").
StartsServing ==
    <>(routing \/ signalled \/ \E t \in Transports : listener[t] = "failed")
=============================================================================

--------------------------- MODULE ServerContract ---------------------------
(* What a server process promises those who call it, whatever fails and    *)
(* whenever it is told to stop (src/cmd/server/main.go:124-130): each      *)
(* transport has a door that opens and shuts at most once; who comes       *)
(* through an open door is answered, unless the door is shut and the time  *)
(* to drain has run out, and then all who are left are cut off at once;    *)
(* and nobody is inside when the process goes.                             *)
CONSTANTS Requests, Via, Transports

VARIABLES door, timedOut, gone, request

vars == <<door, timedOut, gone, request>>

Init ==
    /\ door = [t \in Transports |-> "unopened"]
    /\ timedOut = FALSE
    /\ gone = FALSE
    /\ request = [r \in Requests |-> "idle"]

Open(t) ==
    /\ ~gone
    /\ door[t] = "unopened"
    /\ door' = [door EXCEPT ![t] = "open"]
    /\ UNCHANGED <<timedOut, gone, request>>

Shut(t) ==
    /\ door[t] # "shut"
    /\ door' = [door EXCEPT ![t] = "shut"]
    /\ UNCHANGED <<timedOut, gone, request>>

Take(r) ==
    /\ ~gone
    /\ request[r] = "idle" /\ door[Via[r]] = "open"
    /\ request' = [request EXCEPT ![r] = "inFlight"]
    /\ UNCHANGED <<door, timedOut, gone>>

TurnAway(r) ==
    /\ request[r] = "idle" /\ door[Via[r]] # "open"
    /\ request' = [request EXCEPT ![r] = "refused"]
    /\ UNCHANGED <<door, timedOut, gone>>

Answer(r) ==
    /\ ~gone
    /\ request[r] = "inFlight"
    /\ request' = [request EXCEPT ![r] = "answered"]
    /\ UNCHANGED <<door, timedOut, gone>>

TimeOut ==
    /\ timedOut' = TRUE
    /\ UNCHANGED <<door, gone, request>>

CutOff(t) ==
    /\ timedOut /\ door[t] = "shut"
    /\ request' = [r \in Requests |->
                     IF Via[r] = t /\ request[r] = "inFlight" THEN "cut" ELSE request[r]]
    /\ UNCHANGED <<door, timedOut, gone>>

Go ==
    /\ \A t \in Transports : door[t] = "shut"
    /\ \A r \in Requests : request[r] # "inFlight"
    /\ gone' = TRUE
    /\ UNCHANGED <<door, timedOut, request>>

Next ==
    \/ \E t \in Transports : Open(t) \/ Shut(t) \/ CutOff(t)
    \/ \E r \in Requests : Take(r) \/ TurnAway(r) \/ Answer(r)
    \/ TimeOut
    \/ Go

Spec == Init /\ [][Next]_vars
=============================================================================

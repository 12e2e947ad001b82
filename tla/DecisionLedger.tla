--------------------------- MODULE DecisionLedger ---------------------------
(* What the audit trail promises, whatever the queue and the consumers do  *)
(* (src/internal/audit/dynamodb.go:18-25, docs/adr/0008): a request id     *)
(* gets at most one decision record, of a decision made for it, that is    *)
(* never changed; and a message is acknowledged only when there is one.    *)
CONSTANTS Messages, Body, RequestIDs, NoEvent

VARIABLES
    poison,      \* the messages that do not parse
    ledger,      \* the event recorded under each request id
    acknowledged \* the messages deleted from the queue

vars == <<poison, ledger, acknowledged>>

Init ==
    /\ poison \in SUBSET Messages
    /\ ledger = [r \in RequestIDs |-> NoEvent]
    /\ acknowledged = {}

Record(m) ==
    /\ m \in Messages \ poison
    /\ ledger[Body[m].request] = NoEvent
    /\ ledger' = [ledger EXCEPT ![Body[m].request] = Body[m]]
    /\ UNCHANGED <<poison, acknowledged>>

Acknowledge(ms) ==
    /\ \A m \in ms : m \notin poison /\ ledger[Body[m].request] # NoEvent
    /\ acknowledged' = acknowledged \cup ms
    /\ UNCHANGED <<poison, ledger>>

Next == (\E m \in Messages : Record(m)) \/ (\E ms \in SUBSET Messages : Acknowledge(ms))

Spec == Init /\ [][Next]_vars
=============================================================================

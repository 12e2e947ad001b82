--------------------------- MODULE AuditPipeline ---------------------------
(* From the queue of scoring events to the immutable audit trail: the      *)
(* consumer's core (src/internal/consumer/consumer.go and sinks.go), run   *)
(* by the worker (src/cmd/worker/main.go) or by Lambda instances           *)
(* (src/cmd/consumer/main.go), writing to DynamoDB                         *)
(* (src/internal/audit/dynamodb.go).                                       *)
(*                                                                         *)
(* The queue is SQS (external): a message received becomes invisible, and  *)
(* visible again when its visibility timeout passes before it is deleted,  *)
(* even if its consumer is still at work; after MaxReceive deliveries it   *)
(* goes to the dead-letter queue (deploy/terraform/modules/app/async.tf).  *)
(* Consumers are processes that crash and restart without their memory.    *)
(*                                                                         *)
(* Abstractions.  A record is named by the event it was written from.  The *)
(* sinks of reviews and of retraining data log a line: what is kept is how *)
(* many lines each request id got, counted up to two.                      *)
EXTENDS Naturals, FiniteSets

CONSTANTS
    Messages,   \* messages sent to the queue
    Body,       \* the ScoringEvent each one carries (see Event)
    Consumers,  \* worker processes or Lambda instances
    MaxReceive, \* maxReceiveCount of the redrive policy
    BatchSize,  \* most messages in a batch
    RequestIDs, \* request ids
    Sources,    \* vendors with per-vendor records (as-you-go mode)
    NoEvent     \* not an event

Event ==
    [id : Nat, request : RequestIDs, review : BOOLEAN, providers : SUBSET Sources]

ASSUME BodyAssumption ==
    /\ Messages # {}
    /\ Body \in [Messages -> Event]
    /\ NoEvent \notin Event
ASSUME RedriveAssumption == MaxReceive \in Nat \ {0} /\ BatchSize \in Nat \ {0}

VARIABLES
    poison,    \* the messages that do not parse
    status,    \* each message's place in the queue
    receives,  \* each message's receive count
    step,      \* where each consumer is
    todo,      \* messages of a consumer's batch not yet processed
    current,   \* the message a consumer is processing
    unwritten, \* the vendors whose record it has not yet written
    succeeded, \* messages of its batch processed without error
    reviewed,  \* its review sink's `seen`
    emitted,   \* its retraining sink's `seen`
    ledger,    \* DynamoDB: the event recorded under each request id
    evidence,  \* DynamoDB: per-vendor items, with the event they came from
    reviews,   \* review lines logged for each request id, at most 2 counted
    trainings  \* retraining lines logged for each request id, likewise

queueVars    == <<poison, status, receives>>
consumerVars == <<step, todo, current, unwritten, succeeded, reviewed, emitted>>
storeVars    == <<ledger, evidence>>
sinkVars     == <<reviews, trainings>>
vars         == <<queueVars, consumerVars, storeVars, sinkVars>>

Init ==
    /\ poison \in SUBSET Messages
    /\ status = [m \in Messages |-> "unsent"]
    /\ receives = [m \in Messages |-> 0]
    /\ step = [c \in Consumers |-> "polling"]
    /\ todo = [c \in Consumers |-> {}]
    /\ current = [c \in Consumers |-> CHOOSE m \in Messages : TRUE]
    /\ unwritten = [c \in Consumers |-> {}]
    /\ succeeded = [c \in Consumers |-> {}]
    /\ reviewed = [c \in Consumers |-> {}]
    /\ emitted = [c \in Consumers |-> {}]
    /\ ledger = [r \in RequestIDs |-> NoEvent]
    /\ evidence = {}
    /\ reviews = [r \in RequestIDs |-> 0]
    /\ trainings = [r \in RequestIDs |-> 0]

Request(c) == Body[current[c]].request

-----------------------------------------------------------------------------
(* The queue.                                                              *)

Publish(m) ==
    /\ status[m] = "unsent"
    /\ status' = [status EXCEPT ![m] = "visible"]
    /\ UNCHANGED <<poison, receives, consumerVars, storeVars, sinkVars>>

\* Mutation: one delivery more than maxReceiveCount.
VisibilityTimeoutOffByOne(m) ==
    /\ status[m] = "inflight"
    /\ status' = [status EXCEPT
                    ![m] = IF receives[m] <= MaxReceive THEN "visible" ELSE "dead"]
    /\ UNCHANGED <<poison, receives, consumerVars, storeVars, sinkVars>>

\* A message not deleted in time is delivered again, or dead-lettered.
VisibilityTimeout(m) ==
    /\ status[m] = "inflight"
    /\ status' = [status EXCEPT
                    ![m] = IF receives[m] < MaxReceive THEN "visible" ELSE "dead"]
    /\ UNCHANGED <<poison, receives, consumerVars, storeVars, sinkVars>>

Receive(c, batch) ==
    /\ step[c] = "polling"
    /\ batch # {} /\ Cardinality(batch) <= BatchSize
    /\ \A m \in batch : status[m] = "visible"
    /\ status' = [m \in Messages |-> IF m \in batch THEN "inflight" ELSE status[m]]
    /\ receives' = [m \in Messages |-> IF m \in batch THEN receives[m] + 1 ELSE receives[m]]
    /\ step' = [step EXCEPT ![c] = "next"]
    /\ todo' = [todo EXCEPT ![c] = batch]
    /\ UNCHANGED <<poison, current, unwritten, succeeded, reviewed, emitted, storeVars,
                   sinkVars>>

\* The successes are deleted: by the poller's DeleteMessageBatch, whose errors
\* are only logged, or by Lambda.  Any of the deletions may fail to take.
Delete(c) ==
    /\ step[c] = "next" /\ todo[c] = {}
    /\ \E deleted \in SUBSET succeeded[c] :
         status' = [m \in Messages |->
                      IF m \in deleted /\ status[m] # "dead" THEN "deleted" ELSE status[m]]
    /\ step' = [step EXCEPT ![c] = "polling"]
    /\ succeeded' = [succeeded EXCEPT ![c] = {}]
    /\ UNCHANGED <<poison, receives, todo, current, unwritten, reviewed, emitted,
                   storeVars, sinkVars>>

-----------------------------------------------------------------------------
(* ProcessBatch and Process, one call to a store or a sink per step.       *)

\* Mutation: a message that does not parse is tried again at once.
TakeNextForever(c, m) ==
    /\ step[c] = "next"
    /\ m \in todo[c]
    /\ todo' = [todo EXCEPT ![c] = IF m \in poison THEN @ ELSE @ \ {m}]
    /\ current' = [current EXCEPT ![c] = m]
    /\ step' = [step EXCEPT ![c] = IF m \in poison THEN "next" ELSE "decision"]
    /\ UNCHANGED <<unwritten, succeeded, reviewed, emitted, queueVars, storeVars, sinkVars>>

\* The next message of the batch; one that does not parse counts as failed.
TakeNext(c, m) ==
    /\ step[c] = "next"
    /\ m \in todo[c]
    /\ todo' = [todo EXCEPT ![c] = @ \ {m}]
    /\ current' = [current EXCEPT ![c] = m]
    /\ step' = [step EXCEPT ![c] = IF m \in poison THEN "next" ELSE "decision"]
    /\ UNCHANGED <<unwritten, succeeded, reviewed, emitted, queueVars, storeVars, sinkVars>>

\* Process returns an error: the message stays on the queue.
Fails(c) ==
    /\ step' = [step EXCEPT ![c] = "next"]
    /\ unwritten' = [unwritten EXCEPT ![c] = {}]

\* What writeAudit does after PutDecision returned nil or ErrAlreadyExists.
FirstWrite(c) ==
    /\ unwritten' = [unwritten EXCEPT ![c] = Body[current[c]].providers]
    /\ step' = [step EXCEPT ![c] = "providers"]

\* Mutation: a duplicate is not enqueued for review again.
AlreadyReviewed(c) ==
    /\ step' = [step EXCEPT ![c] = "retrain"]
    /\ UNCHANGED unwritten

\* Mutation: a duplicate's per-vendor records are written too.
AlreadyExistsButWrites(c) == FirstWrite(c)

AlreadyExists(c) ==
    /\ step' = [step EXCEPT ![c] = "review"]
    /\ UNCHANGED unwritten

\* Mutation: the put carries no condition.
PutDecisionAlways(c) ==
    /\ step[c] = "decision"
    /\ ledger' = [ledger EXCEPT ![Request(c)] = Body[current[c]]]
    /\ FirstWrite(c)
    /\ UNCHANGED <<todo, current, succeeded, reviewed, emitted, evidence, queueVars, sinkVars>>

\* The conditional put of the decision, when the key is free: it may fail
\* before or after the write took effect, and if the client library sent it
\* again by itself the second attempt finds the row the first one wrote.
PutDecisionFree(c) ==
    /\ step[c] = "decision"
    /\ ledger[Request(c)] = NoEvent
    /\ \/ /\ ledger' = [ledger EXCEPT ![Request(c)] = Body[current[c]]]
          /\ \/ FirstWrite(c)
             \/ AlreadyExists(c)
             \/ Fails(c)
       \/ Fails(c) /\ UNCHANGED ledger
    /\ UNCHANGED <<todo, current, succeeded, reviewed, emitted, evidence, queueVars, sinkVars>>

\* The conditional put of the decision, when the key is taken.
PutDecisionTaken(c) ==
    /\ step[c] = "decision"
    /\ ledger[Request(c)] # NoEvent
    /\ AlreadyExists(c) \/ Fails(c)
    /\ UNCHANGED <<todo, current, succeeded, reviewed, emitted, storeVars, queueVars, sinkVars>>

\* The conditional put of one vendor's record; an item already there is kept,
\* and counts as written.
PutOnce(c, s) ==
    IF \E i \in evidence : i.request = Request(c) /\ i.source = s
      THEN evidence
      ELSE evidence \cup {[request |-> Request(c), source |-> s, from |-> Body[current[c]]]}

PutProviderResponse(c, s) ==
    /\ step[c] = "providers"
    /\ s \in unwritten[c]
    /\ \/ /\ evidence' = PutOnce(c, s)
          /\ unwritten' = [unwritten EXCEPT ![c] = @ \ {s}]
          /\ UNCHANGED step
       \/ /\ evidence' \in {evidence, PutOnce(c, s)}
          /\ Fails(c)
    /\ UNCHANGED <<todo, current, succeeded, reviewed, emitted, ledger, queueVars, sinkVars>>

ProvidersWritten(c) ==
    /\ step[c] = "providers"
    /\ unwritten[c] = {}
    /\ step' = [step EXCEPT ![c] = "review"]
    /\ UNCHANGED <<todo, current, unwritten, succeeded, reviewed, emitted,
                   queueVars, storeVars, sinkVars>>

Count(n) == IF n < 2 THEN n + 1 ELSE n

\* A decision of MANUAL_REVIEW goes to the review sink, unless this process
\* has sent one for the request id before.
EnqueueReview(c) ==
    /\ step[c] = "review"
    /\ IF Body[current[c]].review /\ Request(c) \notin reviewed[c]
         THEN /\ reviews' = [reviews EXCEPT ![Request(c)] = Count(@)]
              /\ reviewed' = [reviewed EXCEPT ![c] = @ \cup {Request(c)}]
         ELSE UNCHANGED <<reviews, reviewed>>
    /\ step' = [step EXCEPT ![c] = "retrain"]
    /\ UNCHANGED <<todo, current, unwritten, succeeded, emitted, trainings,
                   queueVars, storeVars>>

\* Every decision goes to the retraining sink, likewise; Process returns nil.
Emit(c) ==
    /\ step[c] = "retrain"
    /\ IF Request(c) \notin emitted[c]
         THEN /\ trainings' = [trainings EXCEPT ![Request(c)] = Count(@)]
              /\ emitted' = [emitted EXCEPT ![c] = @ \cup {Request(c)}]
         ELSE UNCHANGED <<trainings, emitted>>
    /\ succeeded' = [succeeded EXCEPT ![c] = @ \cup {current[c]}]
    /\ step' = [step EXCEPT ![c] = "next"]
    /\ UNCHANGED <<todo, current, unwritten, reviewed, reviews, queueVars, storeVars>>

\* The process dies and a new one starts polling.
Crash(c) ==
    /\ step' = [step EXCEPT ![c] = "polling"]
    /\ todo' = [todo EXCEPT ![c] = {}]
    /\ unwritten' = [unwritten EXCEPT ![c] = {}]
    /\ succeeded' = [succeeded EXCEPT ![c] = {}]
    /\ reviewed' = [reviewed EXCEPT ![c] = {}]
    /\ emitted' = [emitted EXCEPT ![c] = {}]
    /\ UNCHANGED <<current, queueVars, storeVars, sinkVars>>

-----------------------------------------------------------------------------
Works(c) ==
    \/ \E m \in Messages : TakeNext(c, m)
    \/ PutDecisionFree(c) \/ PutDecisionTaken(c)
    \/ \E s \in Sources : PutProviderResponse(c, s)
    \/ ProvidersWritten(c) \/ EnqueueReview(c) \/ Emit(c) \/ Delete(c)

Delivers(m) == \E c \in Consumers, batch \in SUBSET Messages : m \in batch /\ Receive(c, batch)

Next ==
    \/ \E m \in Messages : Publish(m) \/ VisibilityTimeout(m) \/ Delivers(m)
    \/ \E c \in Consumers : Works(c) \/ Crash(c)

Spec == Init /\ [][Next]_vars

(* The queue delivers a visible message again and again to consumers that  *)
(* keep polling, visibility timeouts pass, and a consumer that does not    *)
(* crash works on.  Nothing is assumed about crashes, errors of the store  *)
(* or deletions that do not take.                                          *)
Fairness ==
    /\ \A m \in Messages : SF_vars(Delivers(m)) /\ WF_vars(VisibilityTimeout(m))
    /\ \A c \in Consumers : WF_vars(Works(c))

FairSpec == Spec /\ Fairness

-----------------------------------------------------------------------------
(* Safety.                                                                 *)

\* Every variable of the pipeline has its type.
TypeOK ==
    /\ poison \subseteq Messages
    /\ status \in [Messages -> {"unsent", "visible", "inflight", "deleted", "dead"}]
    /\ receives \in [Messages -> 0..MaxReceive]
    /\ step \in [Consumers -> {"polling", "next", "decision", "providers", "review", "retrain"}]
    /\ todo \in [Consumers -> SUBSET Messages]
    /\ current \in [Consumers -> Messages]
    /\ unwritten \in [Consumers -> SUBSET Sources]
    /\ succeeded \in [Consumers -> SUBSET Messages]
    /\ reviewed \in [Consumers -> SUBSET RequestIDs]
    /\ emitted \in [Consumers -> SUBSET RequestIDs]
    /\ ledger \in [RequestIDs -> {Body[m] : m \in Messages} \cup {NoEvent}]
    /\ evidence \subseteq [request : RequestIDs, source : Sources, from : {Body[m] : m \in Messages}]
    /\ reviews \in [RequestIDs -> 0..2]
    /\ trainings \in [RequestIDs -> 0..2]

\* Whatever is redelivered, processed twice at once, or lost with a process, a
\* message leaves the queue for good only when all its work was done at least
\* once: there is a decision record for its request, a human has the case if
\* it needs one, and the retraining data has it (consumer.go:54-72, worker
\* main.go:86-102).
DoneBeforeDelete ==
    \A m \in Messages : status[m] = "deleted" =>
        /\ m \notin poison
        /\ ledger[Body[m].request] # NoEvent
        /\ Body[m].review => reviews[Body[m].request] > 0
        /\ trainings[Body[m].request] > 0

\* The per-vendor records kept under a request id are those of the very
\* decision recorded under it, although two decisions may have been made for
\* one id and their messages may be processed at once (consumer.go:74-92).
EvidenceIsOfTheDecision == \A i \in evidence : i.from = ledger[i.request]

\* The pipeline implements the ledger of decisions: write-once records, and
\* none acknowledged without one (dynamodb.go:18-25).
Ledger ==
    INSTANCE DecisionLedger
        WITH acknowledged <- {m \in Messages : status[m] = "deleted"}
ImplementsLedger == Ledger!Spec

\* A deleted message's per-vendor records have been written, if its decision
\* is the one recorded (consumer.go:10-13: no "side effect fails AFTER the
\* dedup row is committed and a retry then skips it forever").
EvidenceComplete ==
    \A m \in Messages : status[m] = "deleted" /\ ledger[Body[m].request] = Body[m] =>
        \A s \in Body[m].providers :
            \E i \in evidence : i.request = Body[m].request /\ i.source = s

\* Every decision whose message was processed and deleted is in the ledger
\* (README.md:32, "every decision leaves a reviewable immutable record";
\* scoring.go:82, "one decision per request id").
EveryDecisionRecorded ==
    \A m \in Messages : status[m] = "deleted" => ledger[Body[m].request] = Body[m]

-----------------------------------------------------------------------------
(* Liveness.                                                               *)

\* Every message sent is settled: deleted, or set aside in the dead-letter
\* queue for inspection; none circulates for ever (consumer.go:101-104,
\* async.tf:25).
Settles == \A m \in Messages : (status[m] = "visible") ~> (status[m] \in {"deleted", "dead"})
=============================================================================

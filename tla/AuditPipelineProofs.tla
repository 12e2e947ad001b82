------------------------ MODULE AuditPipelineProofs ------------------------
(* Proofs about AuditPipeline, for any messages, request ids, consumers    *)
(* and redrive limit, any number of crashes, and any errors of the store.  *)
EXTENDS AuditPipeline, TLAPS

(* Type correctness needs one more fact: a message that may still be       *)
(* received has deliveries left.                                           *)

DeliveriesLeft ==
    \A m \in Messages : /\ status[m] = "unsent" => receives[m] = 0
                        /\ status[m] = "visible" => receives[m] < MaxReceive

TInv == TypeOK /\ DeliveriesLeft

(* What a processed message has behind it.                                 *)
Worked(m) ==
    /\ m \notin poison
    /\ ledger[Body[m].request] # NoEvent
    /\ Body[m].review => reviews[Body[m].request] > 0
    /\ trainings[Body[m].request] > 0

(* What a consumer's own memory says of the stores and the sinks.          *)
Remembers(c) ==
    /\ \A r \in reviewed[c] : reviews[r] > 0
    /\ \A r \in emitted[c] : trainings[r] > 0
    /\ step[c] \in {"decision", "providers", "review", "retrain"} => current[c] \notin poison
    /\ step[c] = "providers" => ledger[Request(c)] = Body[current[c]]
    /\ step[c] \in {"review", "retrain"} => ledger[Request(c)] # NoEvent
    /\ step[c] = "retrain" /\ Body[current[c]].review => reviews[Request(c)] > 0
    /\ \A m \in succeeded[c] : Worked(m)

(* The inductive invariant.                                                *)
IInv ==
    /\ TInv
    /\ \A c \in Consumers : Remembers(c)
    /\ DoneBeforeDelete
    /\ EvidenceIsOfTheDecision

-----------------------------------------------------------------------------
(* Types.                                                                  *)

\* What a message carries has the type of an event, and is not NoEvent.
LEMMA BodyType ==
    \A m \in Messages : /\ Body[m] \in Event /\ Body[m] # NoEvent
                        /\ Body[m].request \in RequestIDs
                        /\ Body[m].providers \in SUBSET Sources
                        /\ Body[m].review \in BOOLEAN
  BY BodyAssumption DEF Event

\* The pipeline starts, as the worker does, with nothing received: well typed.
LEMMA InitTInv == Init => TInv
  BY BodyAssumption, RedriveAssumption DEF Init, TInv, TypeOK, DeliveriesLeft

\* Type correctness is preserved by what the queue does.
LEMMA QueueTInv ==
    ASSUME TInv,
           \/ \E m \in Messages : Publish(m) \/ VisibilityTimeout(m) \/ Delivers(m)
           \/ \E c \in Consumers : Delete(c)
    PROVE  TInv'
<1> USE RedriveAssumption DEF TInv, TypeOK, DeliveriesLeft
<1>1. ASSUME NEW m \in Messages, Publish(m) PROVE TInv'
  BY <1>1 DEF Publish, consumerVars, storeVars, sinkVars
<1>2. ASSUME NEW m \in Messages, VisibilityTimeout(m) PROVE TInv'
  BY <1>2 DEF VisibilityTimeout, consumerVars, storeVars, sinkVars
<1>3. ASSUME NEW c \in Consumers, NEW batch \in SUBSET Messages, Receive(c, batch) PROVE TInv'
  BY <1>3 DEF Receive, storeVars, sinkVars
<1>4. ASSUME NEW c \in Consumers, Delete(c) PROVE TInv'
  BY <1>4 DEF Delete, storeVars, sinkVars
<1> QED
  BY <1>1, <1>2, <1>3, <1>4 DEF Delivers

\* Type correctness is preserved by what a consumer does.
LEMMA ConsumerTInv ==
    ASSUME TInv, NEW c \in Consumers, Works(c) \/ Crash(c)
    PROVE  TInv'
<1> USE BodyType DEF TInv, TypeOK, DeliveriesLeft
<1>1. ASSUME NEW m \in Messages, TakeNext(c, m) PROVE TInv'
  BY <1>1 DEF TakeNext, queueVars, storeVars, sinkVars
<1>2. CASE PutDecisionFree(c)
  BY <1>2 DEF PutDecisionFree, FirstWrite, AlreadyExists, Fails, Request, queueVars, sinkVars
<1>3. CASE PutDecisionTaken(c)
  BY <1>3 DEF PutDecisionTaken, AlreadyExists, Fails, queueVars, storeVars, sinkVars
<1>4. ASSUME NEW s \in Sources, PutProviderResponse(c, s) PROVE TInv'
  <2>1. PutOnce(c, s) \subseteq
          [request : RequestIDs, source : Sources, from : {Body[m] : m \in Messages}]
    BY DEF PutOnce, Request
  <2> QED
    BY <1>4, <2>1 DEF PutProviderResponse, Fails, queueVars, sinkVars
<1>5. CASE ProvidersWritten(c)
  BY <1>5 DEF ProvidersWritten, queueVars, storeVars, sinkVars
<1>6. CASE EnqueueReview(c)
  BY <1>6 DEF EnqueueReview, Count, Request, queueVars, storeVars
<1>7. CASE Emit(c)
  BY <1>7 DEF Emit, Count, Request, queueVars, storeVars
<1>8. CASE Crash(c)
  BY <1>8 DEF Crash, queueVars, storeVars, sinkVars
<1> QED
  BY <1>1, <1>2, <1>3, <1>4, <1>5, <1>6, <1>7, <1>8, QueueTInv DEF Works

\* Type correctness is preserved by every step of the queue and consumers.
LEMMA NextTInv == TInv /\ [Next]_vars => TInv'
<1> SUFFICES ASSUME TInv, [Next]_vars PROVE TInv'
  OBVIOUS
<1>1. CASE UNCHANGED vars
  BY <1>1 DEF vars, queueVars, consumerVars, storeVars, sinkVars, TInv, TypeOK, DeliveriesLeft
<1> QED
  BY <1>1, QueueTInv, ConsumerTInv DEF Next

\* Type correctness of the pipeline: in particular no message is received more
\* than maxReceiveCount times (async.tf:25).
THEOREM TypeCorrect == Spec => []TypeOK
<1>1. TInv => TypeOK
  BY DEF TInv
<1> QED
  BY <1>1, InitTInv, NextTInv, PTL DEF Spec

-----------------------------------------------------------------------------
(* What is done stays done.                                                *)

\* Records are never changed, and lines logged are not taken back.
StoresGrow ==
    /\ poison' = poison
    /\ \A r \in RequestIDs :
        /\ ledger[r] # NoEvent => ledger'[r] = ledger[r]
        /\ reviews[r] > 0 => reviews'[r] > 0
        /\ trainings[r] > 0 => trainings'[r] > 0

\* Whether a message parses is settled when it is sent.
LEMMA PoisonFixed == [Next]_vars => poison' = poison
<1> SUFFICES ASSUME [Next]_vars PROVE poison' = poison
  OBVIOUS
<1> USE DEF queueVars
<1>1. ASSUME NEW m \in Messages, Publish(m) \/ VisibilityTimeout(m) \/ Delivers(m)
      PROVE  poison' = poison
  BY <1>1 DEF Publish, VisibilityTimeout, Delivers, Receive
<1>2. ASSUME NEW c \in Consumers, Works(c) \/ Crash(c) PROVE poison' = poison
  BY <1>2 DEF Works, TakeNext, PutDecisionFree, PutDecisionTaken, PutProviderResponse,
              ProvidersWritten, EnqueueReview, Emit, Delete, Crash
<1>3. UNCHANGED vars => poison' = poison
  BY DEF vars
<1> QED
  BY <1>1, <1>2, <1>3 DEF Next

\* No step of the pipeline changes a record or takes a line back.
LEMMA NextGrows == TInv /\ [Next]_vars => StoresGrow
<1> SUFFICES ASSUME TInv, [Next]_vars PROVE StoresGrow
  OBVIOUS
<1>0. poison' = poison
  BY PoisonFixed
<1> USE <1>0 DEF StoresGrow, TInv, TypeOK
<1>1. CASE UNCHANGED <<storeVars, sinkVars>>
  BY <1>1 DEF storeVars, sinkVars
<1>2. ASSUME NEW m \in Messages, Publish(m) \/ VisibilityTimeout(m) \/ Delivers(m)
      PROVE  UNCHANGED <<storeVars, sinkVars>>
  BY <1>2 DEF Publish, VisibilityTimeout, Delivers, Receive
<1>3. ASSUME NEW c \in Consumers, Works(c) PROVE StoresGrow
  <2>1. CASE PutDecisionFree(c)
    BY <2>1 DEF PutDecisionFree, sinkVars
  <2>2. CASE EnqueueReview(c)
    BY <2>2, BodyType DEF EnqueueReview, Count, Request, storeVars
  <2>3. CASE Emit(c)
    BY <2>3, BodyType DEF Emit, Count, Request, storeVars
  <2>4. ASSUME NEW s \in Sources, PutProviderResponse(c, s) PROVE StoresGrow
    BY <2>4 DEF PutProviderResponse, sinkVars
  <2>5. CASE \/ \E m \in Messages : TakeNext(c, m)
             \/ PutDecisionTaken(c) \/ ProvidersWritten(c) \/ Delete(c)
    BY <2>5, <1>1 DEF TakeNext, PutDecisionTaken, ProvidersWritten, Delete
  <2> QED
    BY <1>3, <2>1, <2>2, <2>3, <2>4, <2>5 DEF Works
<1>4. ASSUME NEW c \in Consumers, Crash(c) PROVE UNCHANGED <<storeVars, sinkVars>>
  BY <1>4 DEF Crash
<1>5. UNCHANGED vars => UNCHANGED <<storeVars, sinkVars>>
  BY DEF vars, storeVars, sinkVars
<1> QED
  BY <1>1, <1>2, <1>3, <1>4, <1>5 DEF Next

\* So a message whose work is done keeps it done.
LEMMA WorkedStays ==
    ASSUME StoresGrow, NEW m \in Messages, Worked(m)
    PROVE  Worked(m)'
  BY BodyType DEF StoresGrow, Worked

\* And what a consumer remembers stays true while others work.
LEMMA RemembersStays ==
    ASSUME TInv, StoresGrow, NEW c \in Consumers, Remembers(c),
           step'[c] = step[c], current'[c] = current[c], succeeded'[c] = succeeded[c],
           reviewed'[c] = reviewed[c], emitted'[c] = emitted[c]
    PROVE  Remembers(c)'
<1>1. current[c] \in Messages /\ Request(c) \in RequestIDs /\ Request(c)' = Request(c)
  BY BodyType DEF TInv, TypeOK, Request
<1>2. \A m \in succeeded[c] : Worked(m)'
  BY WorkedStays DEF Remembers, TInv, TypeOK
<1>3. reviewed[c] \subseteq RequestIDs /\ emitted[c] \subseteq RequestIDs
  BY DEF TInv, TypeOK
<1>4. Body[current[c]] # NoEvent
  BY <1>1, BodyType
<1> QED
  BY <1>1, <1>2, <1>3, <1>4 DEF Remembers, StoresGrow

-----------------------------------------------------------------------------
(* The invariant.                                                          *)

\* The invariant holds at the start, when a consumer remembers nothing.
LEMMA InitIInv == Init => IInv
<1> SUFFICES ASSUME Init PROVE IInv
  OBVIOUS
<1>1. TInv
  BY InitTInv
<1>2. \A c \in Consumers : Remembers(c)
  BY DEF Init, Remembers
<1>3. DoneBeforeDelete /\ EvidenceIsOfTheDecision
  BY DEF Init, DoneBeforeDelete, EvidenceIsOfTheDecision
<1> QED
  BY <1>1, <1>2, <1>3 DEF IInv

\* What a consumer remembers after a step of its own is true.
LEMMA OwnStepRemembers ==
    ASSUME IInv, StoresGrow, NEW c \in Consumers, Works(c) \/ Crash(c)
    PROVE  Remembers(c)'
<1>0. /\ TInv /\ Remembers(c) /\ TInv' /\ poison' = poison
      /\ \A m \in succeeded[c] : Worked(m)'
      /\ current[c] \in Messages /\ Request(c) \in RequestIDs
      /\ Body[current[c]] # NoEvent
      /\ reviewed[c] \subseteq RequestIDs /\ emitted[c] \subseteq RequestIDs
  BY WorkedStays, ConsumerTInv, BodyType
     DEF IInv, Remembers, TInv, TypeOK, Request, StoresGrow
<1> USE <1>0 DEF TInv, TypeOK
<1>1. ASSUME NEW m \in Messages, TakeNext(c, m) PROVE Remembers(c)'
  BY <1>1 DEF TakeNext, Remembers, Request, queueVars, storeVars, sinkVars
<1>2. CASE PutDecisionFree(c)
  <2>1. /\ step'[c] \in {"providers", "review", "next"}
        /\ step'[c] = "providers" => ledger'[Request(c)] = Body[current[c]]
        /\ step'[c] = "review" => ledger'[Request(c)] # NoEvent
        /\ Request(c)' = Request(c) /\ current[c] \notin poison
    BY <1>2 DEF PutDecisionFree, FirstWrite, AlreadyExists, Fails, Request, Remembers
  <2> QED
    BY <1>2, <2>1 DEF PutDecisionFree, Remembers, sinkVars
<1>3. CASE PutDecisionTaken(c)
  BY <1>3 DEF PutDecisionTaken, AlreadyExists, Fails, Remembers, Request, storeVars, sinkVars
<1>4. ASSUME NEW s \in Sources, PutProviderResponse(c, s) PROVE Remembers(c)'
  BY <1>4 DEF PutProviderResponse, Fails, Remembers, Request, sinkVars
<1>5. CASE ProvidersWritten(c)
  BY <1>5 DEF ProvidersWritten, Remembers, Request, storeVars, sinkVars
<1>6. CASE EnqueueReview(c)
  <2>1. /\ step[c] = "review" /\ step'[c] = "retrain" /\ Request(c)' = Request(c)
        /\ ledger' = ledger /\ trainings' = trainings /\ current'[c] = current[c]
        /\ succeeded'[c] = succeeded[c] /\ emitted'[c] = emitted[c]
    BY <1>6 DEF EnqueueReview, Request, queueVars, storeVars
  <2>2. ASSUME Body[current[c]].review PROVE reviews'[Request(c)] > 0
    <3>1. CASE Request(c) \in reviewed[c]
      BY <1>6, <2>2, <3>1 DEF EnqueueReview, Remembers
    <3>2. CASE Request(c) \notin reviewed[c]
      BY <1>6, <2>2, <3>2 DEF EnqueueReview, Count
    <3> QED
      BY <3>1, <3>2
  <2>3. \A r \in reviewed'[c] : reviews'[r] > 0
    <3>1. CASE Body[current[c]].review /\ Request(c) \notin reviewed[c]
      BY <1>6, <3>1 DEF EnqueueReview, Count, Remembers
    <3>2. CASE ~(Body[current[c]].review /\ Request(c) \notin reviewed[c])
      BY <1>6, <3>2 DEF EnqueueReview, Remembers
    <3> QED
      BY <3>1, <3>2
  <2> QED
    BY <2>1, <2>2, <2>3 DEF Remembers
<1>7. CASE Emit(c)
  <2>1. /\ step[c] = "retrain" /\ step'[c] = "next"
        /\ ledger' = ledger /\ reviews' = reviews
        /\ succeeded'[c] = succeeded[c] \cup {current[c]} /\ reviewed'[c] = reviewed[c]
        /\ current' = current
    BY <1>7 DEF Emit, queueVars, storeVars
  <2>2. trainings'[Request(c)] > 0
    BY <1>7 DEF Emit, Count, Remembers
  <2>3. \A r \in emitted'[c] : trainings'[r] > 0
    BY <1>7 DEF Emit, Count, Remembers
  <2>4. ASSUME NEW m, m = current[c] PROVE Worked(m)'
    BY <2>1, <2>2, <2>4 DEF Worked, Remembers, Request
  <2> QED
    BY <2>1, <2>3, <2>4 DEF Remembers
<1>8. CASE Delete(c)
  BY <1>8 DEF Delete, Remembers, Request, storeVars, sinkVars
<1>9. CASE Crash(c)
  BY <1>9 DEF Crash, Remembers
<1> QED
  BY <1>1, <1>2, <1>3, <1>4, <1>5, <1>6, <1>7, <1>8, <1>9 DEF Works

\* No step of one consumer touches what another remembers.
LEMMA OthersUntouched ==
    ASSUME TInv, NEW c \in Consumers, Works(c) \/ Crash(c),
           NEW d \in Consumers, d # c
    PROVE  /\ step'[d] = step[d] /\ current'[d] = current[d]
           /\ succeeded'[d] = succeeded[d]
           /\ reviewed'[d] = reviewed[d] /\ emitted'[d] = emitted[d]
<1> USE DEF TInv, TypeOK
<1>1. CASE \E m \in Messages : TakeNext(c, m)
  BY <1>1 DEF TakeNext
<1>2. CASE PutDecisionFree(c) \/ PutDecisionTaken(c)
  BY <1>2 DEF PutDecisionFree, PutDecisionTaken, FirstWrite, AlreadyExists, Fails
<1>3. CASE \E s \in Sources : PutProviderResponse(c, s)
  BY <1>3 DEF PutProviderResponse, Fails
<1>4. CASE ProvidersWritten(c) \/ EnqueueReview(c) \/ Emit(c)
  BY <1>4 DEF ProvidersWritten, EnqueueReview, Emit
<1>5. CASE Delete(c) \/ Crash(c)
  BY <1>5 DEF Delete, Crash
<1> QED
  BY <1>1, <1>2, <1>3, <1>4, <1>5 DEF Works

\* The memory of every consumer stays true.
LEMMA NextRemembers ==
    ASSUME IInv, StoresGrow, [Next]_vars, NEW d \in Consumers
    PROVE  Remembers(d)'
<1>0. TInv /\ Remembers(d)
  BY DEF IInv
<1>1. ASSUME NEW c \in Consumers, Works(c) \/ Crash(c) PROVE Remembers(d)'
  <2>1. CASE d = c
    BY <1>1, <2>1, OwnStepRemembers
  <2>2. CASE d # c
    BY <1>0, <1>1, <2>2, OthersUntouched, RemembersStays
  <2> QED
    BY <2>1, <2>2
<1>2. ASSUME NEW m \in Messages, Publish(m) \/ VisibilityTimeout(m) PROVE Remembers(d)'
  BY <1>0, <1>2, RemembersStays DEF Publish, VisibilityTimeout, consumerVars
<1>3. ASSUME NEW c \in Consumers, NEW batch \in SUBSET Messages, Receive(c, batch)
      PROVE  Remembers(d)'
  <2>1. CASE d = c
    <3>1. step'[d] = "next" /\ UNCHANGED <<current, succeeded, reviewed, emitted, storeVars, sinkVars>>
      BY <1>0, <1>3, <2>1 DEF Receive, TInv, TypeOK
    <3>2. \A m \in succeeded[d] : Worked(m)'
      BY <1>0, WorkedStays DEF Remembers, TInv, TypeOK
    <3> QED
      BY <1>0, <3>1, <3>2 DEF Remembers, sinkVars
  <2>2. CASE d # c
    BY <1>0, <1>3, <2>2, RemembersStays DEF Receive, TInv, TypeOK
  <2> QED
    BY <2>1, <2>2
<1>4. CASE UNCHANGED vars
  BY <1>0, <1>4, RemembersStays DEF vars, consumerVars
<1> QED
  BY <1>1, <1>2, <1>3, <1>4 DEF Next, Delivers

\* A message is deleted after its work was done.
LEMMA NextDoneBeforeDelete ==
    ASSUME IInv, StoresGrow, [Next]_vars
    PROVE  DoneBeforeDelete'
<1>1. SUFFICES ASSUME NEW m \in Messages, status'[m] = "deleted" PROVE Worked(m)'
  BY DEF DoneBeforeDelete, Worked
<1>2. CASE status[m] = "deleted"
  <2>1. Worked(m)
    BY <1>2 DEF IInv, DoneBeforeDelete, Worked
  <2> QED
    BY <2>1, WorkedStays
<1>3. CASE status[m] # "deleted"
  <2> USE DEF IInv, TInv, TypeOK
  <2>1. PICK c \in Consumers : Delete(c)
    <3>1. ASSUME NEW n \in Messages, Publish(n) \/ VisibilityTimeout(n) PROVE FALSE
      BY <1>1, <1>3, <3>1 DEF Publish, VisibilityTimeout
    <3>2. ASSUME NEW c \in Consumers, NEW batch \in SUBSET Messages, Receive(c, batch)
          PROVE  FALSE
      BY <1>1, <1>3, <3>2 DEF Receive
    <3>3. ASSUME UNCHANGED status PROVE FALSE
      BY <1>1, <1>3, <3>3
    <3>4. ASSUME NEW c \in Consumers, Works(c) \/ Crash(c) PROVE UNCHANGED status \/ Delete(c)
      BY <3>4 DEF Works, TakeNext, PutDecisionFree, PutDecisionTaken, PutProviderResponse,
                  ProvidersWritten, EnqueueReview, Emit, Crash, queueVars
    <3> QED
      BY <3>1, <3>2, <3>3, <3>4 DEF Next, Delivers, vars, queueVars
  <2>2. m \in succeeded[c]
    BY <1>1, <1>3, <2>1 DEF Delete
  <2>3. Worked(m)
    BY <2>2 DEF Remembers
  <2> QED
    BY <2>3, WorkedStays
<1> QED
  BY <1>2, <1>3

\* Per-vendor records are written only for the recorded decision.
LEMMA NextEvidence ==
    ASSUME IInv, StoresGrow, [Next]_vars
    PROVE  EvidenceIsOfTheDecision'
<1> SUFFICES ASSUME NEW i \in evidence' PROVE i.from = ledger'[i.request]
  BY DEF EvidenceIsOfTheDecision
<1> USE DEF IInv, TInv, TypeOK
<1>1. CASE i \in evidence
  <2>1. i.request \in RequestIDs /\ i.from = ledger[i.request] /\ i.from # NoEvent
    BY <1>1, BodyType DEF EvidenceIsOfTheDecision
  <2> QED
    BY <2>1 DEF StoresGrow
<1>2. CASE i \notin evidence
  <2>1. PICK c \in Consumers, s \in Sources : PutProviderResponse(c, s)
    <3>1. ASSUME UNCHANGED evidence PROVE FALSE
      BY <1>2, <3>1
    <3>2. ASSUME NEW m \in Messages, Publish(m) \/ VisibilityTimeout(m) \/ Delivers(m) PROVE FALSE
      BY <3>1, <3>2 DEF Publish, VisibilityTimeout, Delivers, Receive, storeVars
    <3>3. ASSUME NEW c \in Consumers, Works(c) \/ Crash(c)
          PROVE  UNCHANGED evidence \/ \E s \in Sources : PutProviderResponse(c, s)
      BY <3>3 DEF Works, TakeNext, PutDecisionFree, PutDecisionTaken, ProvidersWritten,
                  EnqueueReview, Emit, Delete, Crash, storeVars
    <3> QED
      BY <3>1, <3>2, <3>3 DEF Next, vars, storeVars
  <2>2. step[c] = "providers" /\ ledger' = ledger /\ evidence' \in {evidence, PutOnce(c, s)}
    BY <2>1 DEF PutProviderResponse
  <2>3. i.request = Request(c) /\ i.from = Body[current[c]]
    BY <1>2, <2>2 DEF PutOnce
  <2> QED
    BY <2>2, <2>3 DEF Remembers
<1> QED
  BY <1>1, <1>2

\* The invariant is preserved by every step, of Process or of the queue.
LEMMA NextIInv == IInv /\ [Next]_vars => IInv'
<1> SUFFICES ASSUME IInv, [Next]_vars PROVE IInv'
  OBVIOUS
<1>1. TInv' /\ StoresGrow
  BY NextTInv, NextGrows DEF IInv
<1>2. \A c \in Consumers : Remembers(c)'
  BY <1>1, NextRemembers
<1> QED
  BY <1>1, <1>2, NextDoneBeforeDelete, NextEvidence DEF IInv

\* The inductive invariant: types, what consumers remember, and the two
\* properties of deletion and of per-vendor records.
THEOREM Invariance == Spec => []IInv
  BY InitIInv, NextIInv, PTL DEF Spec

\* A message leaves the queue for good only when its decision record is
\* written, its review requested and its retraining data emitted
\* (consumer.go:54-72, worker main.go:86-102).
THEOREM DeletedOnlyWhenDone == Spec => []DoneBeforeDelete
<1>1. IInv => DoneBeforeDelete
  BY DEF IInv
<1> QED
  BY <1>1, Invariance, PTL

\* Per-vendor records under a request id are of the decision recorded under it,
\* whoever reuses request ids (consumer.go:74-92).
THEOREM EvidenceMatches == Spec => []EvidenceIsOfTheDecision
<1>1. IInv => EvidenceIsOfTheDecision
  BY DEF IInv
<1> QED
  BY <1>1, Invariance, PTL

-----------------------------------------------------------------------------
(* Refinement: the pipeline implements the ledger of decisions.            *)

\* The pipeline starts with an empty ledger and nothing acknowledged.
LEMMA LedgerInit == Init => Ledger!Init
  BY DEF Init, Ledger!Init

\* The conditional put is the ledger's Record, deletion its Acknowledge, and
\* every other step of Process, of the queue or of a crash changes nothing a
\* reader of the audit trail sees.
LEMMA LedgerStep == IInv /\ [Next]_vars => [Ledger!Next]_(Ledger!vars)
<1> SUFFICES ASSUME IInv, [Next]_vars PROVE Ledger!Next \/ UNCHANGED Ledger!vars
  OBVIOUS
<1>0. poison' = poison
  BY PoisonFixed
<1> USE <1>0 DEF IInv, TInv, TypeOK
<1>1. ASSUME UNCHANGED <<ledger, status>> PROVE UNCHANGED Ledger!vars
  BY <1>1 DEF Ledger!vars
<1>2. ASSUME NEW m \in Messages, Publish(m) \/ VisibilityTimeout(m) \/ Delivers(m)
      PROVE  UNCHANGED Ledger!vars
  <2>1. ledger' = ledger
    BY <1>2 DEF Publish, VisibilityTimeout, Delivers, Receive, storeVars
  <2>2. ASSUME NEW n \in Messages PROVE (status[n] = "deleted") <=> (status'[n] = "deleted")
    BY <1>2 DEF Publish, VisibilityTimeout, Delivers, Receive
  <2> QED
    BY <2>1, <2>2 DEF Ledger!vars
<1>3. ASSUME NEW c \in Consumers, PutDecisionFree(c) PROVE Ledger!Next \/ UNCHANGED Ledger!vars
  <2>1. CASE ledger' = [ledger EXCEPT ![Request(c)] = Body[current[c]]]
    <3>1. current[c] \in Messages \ poison /\ ledger[Request(c)] = NoEvent
      BY <1>3 DEF PutDecisionFree, Remembers
    <3>2. status' = status
      BY <1>3 DEF PutDecisionFree, queueVars
    <3>3. Ledger!Record(current[c])
      BY <2>1, <3>1, <3>2 DEF Ledger!Record, Request
    <3> QED
      BY <3>1, <3>3 DEF Ledger!Next
  <2>2. CASE UNCHANGED ledger
    BY <1>1, <1>3, <2>2 DEF PutDecisionFree, queueVars
  <2> QED
    BY <1>3, <2>1, <2>2 DEF PutDecisionFree
<1>4. ASSUME NEW c \in Consumers, Delete(c) PROVE Ledger!Next
  <2>1. PICK deleted \in SUBSET succeeded[c] :
          status' = [m \in Messages |->
                       IF m \in deleted /\ status[m] # "dead" THEN "deleted" ELSE status[m]]
    BY <1>4 DEF Delete
  <2>2. succeeded[c] \subseteq Messages /\ \A m \in succeeded[c] : Worked(m)
    BY DEF Remembers
  <2>3. PICK ms \in SUBSET Messages : ms = {m \in deleted : status[m] # "dead"}
    BY <2>2
  <2>4. \A m \in ms : Worked(m)
    BY <2>2, <2>3
  <2>5. {m \in Messages : status'[m] = "deleted"} = {m \in Messages : status[m] = "deleted"} \cup ms
    BY <2>1, <2>3
  <2>6. ledger' = ledger
    BY <1>4 DEF Delete, storeVars
  <2>7. Ledger!Acknowledge(ms)
    BY <2>4, <2>5, <2>6 DEF Ledger!Acknowledge, Worked
  <2> QED
    BY <2>7 DEF Ledger!Next
<1>5. ASSUME NEW c \in Consumers, Works(c) \/ Crash(c)
      PROVE  PutDecisionFree(c) \/ Delete(c) \/ UNCHANGED <<ledger, status>>
  BY <1>5 DEF Works, TakeNext, PutDecisionTaken, PutProviderResponse, ProvidersWritten,
              EnqueueReview, Emit, Crash, queueVars, storeVars
<1>6. CASE UNCHANGED vars
  BY <1>1, <1>6 DEF vars, queueVars, storeVars
<1> QED
  BY <1>1, <1>2, <1>3, <1>4, <1>5, <1>6 DEF Next

\* The pipeline implements the ledger of decisions: write-once records, and no
\* message acknowledged without one (dynamodb.go:18-25), for any number of
\* messages, consumers and crashes.
THEOREM Refinement == Spec => ImplementsLedger
  BY LedgerInit, LedgerStep, Invariance, PTL DEF Spec, ImplementsLedger, Ledger!Spec

-----------------------------------------------------------------------------
(* Decisions that do not share a request id.                               *)

\* A record is kept under the request id of the decision it is of.
KeptUnderItsRequest ==
    \A r \in RequestIDs : ledger[r] # NoEvent =>
        \E m \in Messages : ledger[r] = Body[m] /\ Body[m].request = r

\* Every record is put under the key made from its own event
\* (dynamodb.go:27-47, consumer.go:77).
LEMMA NextKept == IInv /\ KeptUnderItsRequest /\ [Next]_vars => KeptUnderItsRequest'
<1> SUFFICES ASSUME IInv, KeptUnderItsRequest, [Next]_vars PROVE KeptUnderItsRequest'
  OBVIOUS
<1>1. CASE UNCHANGED Ledger!vars
  BY <1>1 DEF Ledger!vars, KeptUnderItsRequest
<1>2. ASSUME NEW m \in Messages, Ledger!Record(m) PROVE KeptUnderItsRequest'
  <2>1. Body[m].request \in RequestIDs /\ ledger' = [ledger EXCEPT ![Body[m].request] = Body[m]]
    BY <1>2, BodyType DEF Ledger!Record
  <2> QED
    BY <2>1 DEF KeptUnderItsRequest, IInv, TInv, TypeOK
<1>3. ASSUME NEW ms \in SUBSET Messages, Ledger!Acknowledge(ms) PROVE KeptUnderItsRequest'
  BY <1>3 DEF Ledger!Acknowledge, KeptUnderItsRequest
<1> QED
  BY <1>1, <1>2, <1>3, LedgerStep DEF Ledger!Next

\* If no request id is used for two decisions, every decision whose message was
\* processed and deleted is in the ledger, as the README promises
\* (README.md:32); reused ids are all that can break it (consumer.go:77).
THEOREM DistinctRequestsAreRecorded ==
    ASSUME \A m, n \in Messages : Body[m].request = Body[n].request => m = n
    PROVE  Spec => []EveryDecisionRecorded
<1>1. Init => KeptUnderItsRequest
  BY DEF Init, KeptUnderItsRequest
<1>2. IInv /\ KeptUnderItsRequest => EveryDecisionRecorded
  BY BodyType DEF IInv, DoneBeforeDelete, KeptUnderItsRequest, EveryDecisionRecorded
<1> QED
  BY <1>1, <1>2, NextKept, Invariance, PTL DEF Spec
=============================================================================

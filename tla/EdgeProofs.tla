----------------------------- MODULE EdgeProofs -----------------------------
(* Proofs about Edge, for any ids and any tokens clients send.             *)
EXTENDS Edge, TLAPS

(* What the answer to a call is bound to be.                               *)

Subject == IF authEnabled /\ ~Rejected THEN BearerToken.sub ELSE Empty
Reached == ~Rejected /\ call.body = "wellFormed" /\ Valid
Panics  == Reached /\ call.outcome = "panic"

Status ==
    IF Rejected THEN "unauthenticated"
    ELSE IF call.body = "oversized" THEN "tooLarge"
    ELSE IF ~Reached THEN "invalid"
    ELSE IF Panics THEN "internal" ELSE "ok"

Answer(t) ==
    IF ~Reached \/ Panics THEN "none"
    ELSE IF t = "http" THEN call.outcome ELSE toProtoDecision(call.outcome)

ScoredAs ==
    IF Reached THEN [id |-> RequestId, subject |-> Subject, application |-> Required]
    ELSE NotScored

(* The inductive invariant: what a transport has done so far, by the layer *)
(* it is at and its direction.                                             *)

\* The handler is the innermost layer.
Innermost(t) == IF t = "http" THEN 5 ELSE 4

GoesDown(t) ==
    /\ depth[t] \in 1..Innermost(t)
    /\ id[t] = IF depth[t] = 1 THEN Empty ELSE RequestId
    /\ subject[t] = IF depth[t] = Innermost(t) THEN Subject ELSE Empty
    /\ depth[t] = Innermost(t) => ~Rejected
    /\ response[t] = "none" /\ decision[t] = "none" /\ log[t] = <<>> /\ scored[t] = NotScored

\* From the logging layer, the second, outwards the call is logged.
GoesUp(t) ==
    /\ depth[t] \in 0..(Innermost(t) - 1)
    /\ id[t] = RequestId
    /\ response[t] = Status /\ decision[t] = Answer(t) /\ scored[t] = ScoredAs
    /\ log[t] = IF depth[t] <= 1 THEN <<[id |-> RequestId, status |-> Status]>> ELSE <<>>
    /\ t = "grpc" => ~Panics

\* Over HTTP no panic comes up beyond the third layer, which recovers.
GoesUpPanicking(t) ==
    /\ depth[t] \in 0..(Innermost(t) - 1)
    /\ t = "http" => depth[t] >= 3
    /\ id[t] = RequestId
    /\ Panics
    /\ response[t] = "none" /\ decision[t] = "none" /\ log[t] = <<>> /\ scored[t] = ScoredAs

Along(t) ==
    /\ \/ mode[t] = "down" /\ GoesDown(t)
       \/ mode[t] = "up" /\ GoesUp(t)
       \/ mode[t] = "panic" /\ GoesUpPanicking(t)
    /\ subject[t] \in {Empty, Subject}
    /\ header[t] = IF t = "http" THEN id[t] ELSE Empty
    /\ t = "grpc" => call.body = "wellFormed" \/ (depth[t] = 1 /\ mode[t] = "down")

\* Each variable has a value for each transport and no other.
Total(f) == f = [t \in Transports |-> f[t]]

PerTransport ==
    /\ Total(depth) /\ Total(mode) /\ Total(id) /\ Total(header) /\ Total(subject)
    /\ Total(response) /\ Total(decision) /\ Total(log) /\ Total(scored)

CallOK == call \in Call /\ authEnabled \in BOOLEAN /\ (~call.isApplication => call.application = {})

IInv == CallOK /\ PerTransport /\ \A t \in Transports : Along(t)
-----------------------------------------------------------------------------
(* The chains.                                                             *)

\* The layer a transport is at, by its depth.
LEMMA Layers ==
    ASSUME IInv, NEW t \in Transports, depth[t] > 0
    PROVE  /\ depth[t] \in 1..Innermost(t)
           /\ t = "http" => /\ Layer(t) = "requestID" => depth[t] = 1
                            /\ Layer(t) = "logging" => depth[t] = 2
                            /\ Layer(t) = "recover" => depth[t] = 3
                            /\ Layer(t) = "auth" => depth[t] = 4
                            /\ Layer(t) = "handler" => depth[t] = 5
           /\ t = "grpc" => /\ Layer(t) = "requestID" => depth[t] = 1
                            /\ Layer(t) = "logging" => depth[t] = 2
                            /\ Layer(t) # "recover"
                            /\ Layer(t) = "auth" => depth[t] = 3
                            /\ Layer(t) = "handler" => depth[t] = 4
<1>1. depth[t] \in 1..Innermost(t)
  <2>1. Along(t)
    BY DEF IInv
  <2>2. CASE GoesDown(t)
    BY <2>2 DEF GoesDown
  <2>3. CASE GoesUp(t)
    BY <2>3 DEF GoesUp, Innermost
  <2>4. CASE GoesUpPanicking(t)
    BY <2>4 DEF GoesUpPanicking, Innermost
  <2> QED
    BY <2>1, <2>2, <2>3, <2>4 DEF Along
<1>2. CASE t = "http"
  <2>1. /\ HTTPChain[1] = "requestID" /\ HTTPChain[2] = "logging" /\ HTTPChain[3] = "recover"
        /\ HTTPChain[4] = "auth" /\ HTTPChain[5] = "handler"
    BY DEF HTTPChain
  <2>2. depth[t] \in {1, 2, 3, 4, 5} /\ Layer(t) = HTTPChain[depth[t]]
    BY <1>1, <1>2 DEF Layer, Innermost
  <2> QED
    BY <1>1, <1>2, <2>1, <2>2
<1>3. CASE t = "grpc"
  <2>1. /\ GRPCChain[1] = "requestID" /\ GRPCChain[2] = "logging"
        /\ GRPCChain[3] = "auth" /\ GRPCChain[4] = "handler"
    BY DEF GRPCChain
  <2>2. depth[t] \in {1, 2, 3, 4} /\ Layer(t) = GRPCChain[depth[t]]
    BY <1>1, <1>3 DEF Layer, Innermost
  <2> QED
    BY <1>1, <1>3, <2>1, <2>2
<1> QED
  BY <1>1, <1>2, <1>3 DEF Transports

\* What an answer is bound to be depends on the call alone.
LEMMA SameCall ==
    ASSUME UNCHANGED <<call, authEnabled>>
    PROVE  /\ (Rejected' <=> Rejected) /\ (Reached' <=> Reached) /\ (Panics' <=> Panics)
           /\ Status' = Status /\ ScoredAs' = ScoredAs /\ Subject' = Subject
           /\ RequestId' = RequestId /\ \A t : Answer(t)' = Answer(t)
  BY DEF Rejected, BearerToken, Reached, Valid, Panics, Status, ScoredAs, Subject, RequestId, Answer

\* A step of one transport that keeps its part of the invariant keeps the
\* other's.
Moved(f, g, t) == Total(g) /\ \A u \in Transports \ {t} : g[u] = f[u]

MovesOnly(t) ==
    /\ UNCHANGED <<call, authEnabled>>
    /\ Moved(depth, depth', t) /\ Moved(mode, mode', t) /\ Moved(id, id', t)
    /\ Moved(header, header', t) /\ Moved(subject, subject', t)
    /\ Moved(response, response', t) /\ Moved(decision, decision', t)
    /\ Moved(log, log', t) /\ Moved(scored, scored', t)

\* An assignment to what one transport keeps moves only that transport.
LEMMA Moving ==
    ASSUME NEW f, Total(f), NEW t \in Transports, NEW v
    PROVE  Moved(f, f, t) /\ Moved(f, [f EXCEPT ![t] = v], t) /\ [f EXCEPT ![t] = v][t] = v
  BY DEF Moved, Total

\* The two chains share nothing but the call: what one does to itself leaves
\* the other where it is.
LEMMA OneTransport ==
    ASSUME IInv, NEW t \in Transports, MovesOnly(t), Along(t)'
    PROVE  IInv'
<1>1. CallOK'
  BY DEF IInv, CallOK, MovesOnly
<1>2. PerTransport'
  BY DEF MovesOnly, Moved, PerTransport
<1>3. ASSUME NEW u \in Transports, u # t PROVE Along(u)'
  <2>1. /\ depth'[u] = depth[u] /\ mode'[u] = mode[u] /\ id'[u] = id[u] /\ header'[u] = header[u]
        /\ subject'[u] = subject[u] /\ response'[u] = response[u]
        /\ decision'[u] = decision[u] /\ log'[u] = log[u] /\ scored'[u] = scored[u]
        /\ UNCHANGED <<call, authEnabled>>
    BY <1>3 DEF MovesOnly, Moved
  <2>2. Along(u)
    BY DEF IInv
  <2> QED
    BY <2>1, <2>2, SameCall DEF Along, GoesDown, GoesUp, GoesUpPanicking, Innermost, NotScored
<1> QED
  BY <1>1, <1>2, <1>3 DEF IInv

-----------------------------------------------------------------------------
(* Every step keeps the invariant.                                         *)

\* The outermost layer gives the call its id (reqid.go:23-29).
LEMMA RequestIdStep ==
    ASSUME IInv, RequestIDMW \/ RequestIDInterceptor
    PROVE  IInv'
<1>1. PICK t \in Transports :
        /\ At(t, "requestID", "down")
        /\ id' = [id EXCEPT ![t] = RequestId]
        /\ header' = IF t = "http" THEN [header EXCEPT ![t] = RequestId] ELSE header
        /\ Deeper(t)
        /\ UNCHANGED <<call, authEnabled, subject, response, decision, log, scored>>
  BY DEF RequestIDMW, RequestIDInterceptor, Transports
<1>2. MovesOnly(t)
  BY <1>1, Moving DEF MovesOnly, Deeper, IInv, PerTransport
<1>3. /\ depth'[t] = depth[t] + 1 /\ mode'[t] = mode[t] /\ id'[t] = RequestId
      /\ header'[t] = IF t = "http" THEN RequestId ELSE header[t]
  BY <1>1, Moving DEF Deeper, IInv, PerTransport
<1>4. depth[t] = 1 /\ mode[t] = "down" /\ (t = "grpc" => call.body = "wellFormed")
  BY <1>1, Layers DEF At, Transports
<1>5. GoesDown(t) /\ Along(t)
  BY <1>4 DEF IInv, Along
<1>6. GoesDown(t)'
  <2>1. /\ depth'[t] = 2 /\ id'[t] = RequestId'
        /\ UNCHANGED <<subject, response, decision, log, scored>>
    BY <1>1, <1>3, <1>4, SameCall
  <2> QED
    BY <1>4, <1>5, <2>1 DEF GoesDown, Innermost, NotScored
<1>7. Along(t)'
  BY <1>1, <1>3, <1>4, <1>5, <1>6, SameCall DEF Along
<1> QED
  BY <1>2, <1>7, OneTransport

\* The logging and recovering layers pass the call on as it is.
LEMMA PassDownStep ==
    ASSUME IInv, NEW t \in Transports, PassDown(t)
    PROVE  IInv'
<1>1. /\ At(t, "logging", "down") \/ At(t, "recover", "down")
      /\ Deeper(t)
      /\ UNCHANGED <<call, authEnabled, id, header, subject, response, decision, log, scored>>
  BY DEF PassDown
<1>2. MovesOnly(t)
  BY <1>1, Moving DEF MovesOnly, Deeper, IInv, PerTransport
<1>3. depth'[t] = depth[t] + 1 /\ mode'[t] = mode[t]
  BY <1>1, Moving DEF Deeper, IInv, PerTransport
<1>4. /\ depth[t] \in {2, 3} /\ depth[t] + 1 < Innermost(t)
      /\ mode[t] = "down" /\ (t = "grpc" => call.body = "wellFormed")
  BY <1>1, Layers DEF At, Transports, Innermost
<1>5. GoesDown(t) /\ Along(t)
  BY <1>4 DEF IInv, Along
<1>6. GoesDown(t)'
  <2>1. depth'[t] \in 1..Innermost(t) /\ depth'[t] # 1 /\ depth'[t] # Innermost(t)
        /\ depth[t] # 1 /\ depth[t] # Innermost(t)
    BY <1>3, <1>4 DEF Innermost
  <2> QED
    BY <1>1, <1>5, <2>1, SameCall DEF GoesDown, NotScored
<1>7. Along(t)'
  BY <1>1, <1>3, <1>4, <1>5, <1>6, SameCall DEF Along
<1> QED
  BY <1>2, <1>7, OneTransport

\* An answer without a score goes up from below the logging layer.
LEMMA RefuseStep ==
    ASSUME IInv, NEW t \in Transports, mode[t] = "down", depth[t] >= 3,
           t = "grpc" => call.body = "wellFormed",
           ~Reached, Refuse(t, Status)
    PROVE  IInv'
<1>1. /\ response' = [response EXCEPT ![t] = Status]
      /\ depth' = [depth EXCEPT ![t] = depth[t] - 1]
      /\ mode' = [mode EXCEPT ![t] = "up"]
      /\ UNCHANGED <<call, authEnabled, id, header, subject, decision, log, scored>>
  BY DEF Refuse, Return
<1>2. MovesOnly(t)
  BY <1>1, Moving DEF MovesOnly, IInv, PerTransport
<1>3. response'[t] = Status /\ depth'[t] = depth[t] - 1 /\ mode'[t] = "up"
  BY <1>1, Moving DEF IInv, PerTransport
<1>4. GoesDown(t) /\ Along(t)
  BY DEF IInv, Along
<1>5. GoesUp(t)'
  <2>1. /\ depth'[t] \in 0..(Innermost(t) - 1) /\ ~ (depth'[t] <= 1)
        /\ depth[t] # 1
    BY <1>3, <1>4 DEF GoesDown, Innermost
  <2>2. Answer(t) = "none" /\ ScoredAs = NotScored /\ ~Panics
    BY DEF Answer, ScoredAs, Panics
  <2>3. /\ id'[t] = RequestId /\ decision'[t] = "none"
        /\ log'[t] = <<>> /\ scored'[t] = NotScored
    BY <1>1, <1>4, <2>1 DEF GoesDown
  <2> QED
    BY <1>1, <1>3, <2>1, <2>2, <2>3, SameCall DEF GoesUp
<1>6. Along(t)'
  BY <1>1, <1>3, <1>4, <1>5, SameCall DEF Along
<1> QED
  BY <1>2, <1>6, OneTransport

\* The authenticating layer admits the subject of the token or refuses the
\* call (middleware.go:101, interceptors.go:56).
LEMMA AuthStep ==
    ASSUME IInv, AuthMW \/ AuthInterceptor
    PROVE  IInv'
<1>1. PICK t \in Transports :
        /\ At(t, "auth", "down")
        /\ \/ Rejected /\ Refuse(t, "unauthenticated")
           \/ ~Rejected /\ Admit(t)
  BY DEF AuthMW, AuthInterceptor, Transports
<1>2. /\ depth[t] >= 3 /\ depth[t] = Innermost(t) - 1
      /\ mode[t] = "down" /\ (t = "grpc" => call.body = "wellFormed")
  BY <1>1, Layers DEF At, Transports, Innermost
<1>3. CASE Rejected /\ Refuse(t, "unauthenticated")
  <2>1. ~Reached /\ Status = "unauthenticated"
    BY <1>3 DEF Reached, Status
  <2> QED
    BY <1>2, <1>3, <2>1, RefuseStep
<1>4. CASE ~Rejected /\ Admit(t)
  <2>1. /\ subject' = [subject EXCEPT ![t] = IF authEnabled THEN BearerToken.sub ELSE subject[t]]
        /\ Deeper(t)
        /\ UNCHANGED <<call, authEnabled, id, header, response, decision, log, scored>>
    BY <1>4 DEF Admit
  <2>2. MovesOnly(t)
    BY <2>1, Moving DEF MovesOnly, Deeper, IInv, PerTransport
  <2>3. /\ depth'[t] = depth[t] + 1 /\ mode'[t] = mode[t]
        /\ subject'[t] = IF authEnabled THEN BearerToken.sub ELSE subject[t]
    BY <2>1, Moving DEF Deeper, IInv, PerTransport
  <2>4. GoesDown(t) /\ Along(t)
    BY <1>2 DEF IInv, Along
  <2>5. /\ depth[t] # 1 /\ depth[t] # Innermost(t)
        /\ depth'[t] # 1 /\ depth'[t] = Innermost(t) /\ depth'[t] \in 1..Innermost(t)
    BY <1>2, <2>3 DEF Innermost
  <2>6. subject'[t] = Subject
    BY <1>4, <2>3, <2>4, <2>5 DEF GoesDown, Subject
  <2>7. GoesDown(t)'
    BY <1>4, <2>1, <2>4, <2>5, <2>6, SameCall DEF GoesDown, NotScored
  <2>8. Along(t)'
    BY <1>2, <2>1, <2>3, <2>4, <2>6, <2>7, SameCall DEF Along
  <2> QED
    BY <2>2, <2>8, OneTransport
<1> QED
  BY <1>1, <1>3, <1>4

\* An application is scored, or the scoring panics.
LEMMA ScoreStep ==
    ASSUME IInv, NEW t \in Transports, mode[t] = "down", depth[t] = Innermost(t),
           t = "grpc" => call.body = "wellFormed", Reached,
           Score(t, Required, IF t = "http" THEN call.outcome ELSE toProtoDecision(call.outcome))
    PROVE  IInv'
<1> DEFINE as == [id |-> id[t], subject |-> subject[t], application |-> Required]
           answer == IF t = "http" THEN call.outcome ELSE toProtoDecision(call.outcome)
<1>1. GoesDown(t) /\ Along(t)
  BY DEF IInv, Along
<1>2. id[t] = RequestId /\ subject[t] = Subject /\ log[t] = <<>>
      /\ response[t] = "none" /\ decision[t] = "none"
  <2>1. depth[t] # 1
    BY DEF Innermost
  <2> QED
    BY <1>1, <2>1 DEF GoesDown
<1>3. as = ScoredAs
  BY <1>2 DEF ScoredAs
<1>4. depth[t] - 1 \in 0..(Innermost(t) - 1) /\ depth[t] - 1 >= 3 /\ ~ (depth[t] - 1 <= 1)
  BY DEF Innermost
<1>5. /\ scored' = [scored EXCEPT ![t] = as]
      /\ depth' = [depth EXCEPT ![t] = depth[t] - 1]
      /\ UNCHANGED <<call, authEnabled, id, header, subject, log>>
  BY DEF Score, Return
<1>6. CASE Panics
  <2>1. mode' = [mode EXCEPT ![t] = "panic"] /\ UNCHANGED <<response, decision>>
    BY <1>6 DEF Score, Return, Panics
  <2>2. MovesOnly(t)
    BY <1>5, <2>1, Moving DEF MovesOnly, IInv, PerTransport
  <2>3. depth'[t] = depth[t] - 1 /\ mode'[t] = "panic" /\ scored'[t] = as
    BY <1>5, <2>1, Moving DEF IInv, PerTransport
  <2> HIDE DEF as
  <2>4. GoesUpPanicking(t)'
    BY <1>2, <1>3, <1>4, <1>5, <1>6, <2>1, <2>3, SameCall DEF GoesUpPanicking
  <2>5. Along(t)'
    BY <1>1, <1>5, <2>3, <2>4, SameCall DEF Along
  <2> QED
    BY <2>2, <2>5, OneTransport
<1>7. CASE ~Panics
  <2>1. /\ mode' = [mode EXCEPT ![t] = "up"]
        /\ response' = [response EXCEPT ![t] = "ok"]
        /\ decision' = [decision EXCEPT ![t] = answer]
    BY <1>7 DEF Score, Return, Panics
  <2>2. MovesOnly(t)
    <3> HIDE DEF as, answer
    <3> QED
      BY <1>5, <2>1, Moving DEF MovesOnly, IInv, PerTransport
  <2>3. depth'[t] = depth[t] - 1 /\ mode'[t] = "up" /\ scored'[t] = as
        /\ response'[t] = "ok" /\ decision'[t] = answer
    <3> HIDE DEF as, answer
    <3> QED
      BY <1>5, <2>1, Moving DEF IInv, PerTransport
  <2>4. Status = "ok" /\ Answer(t) = answer
    BY <1>7 DEF Status, Answer, Reached
  <2> HIDE DEF as, answer
  <2>5. GoesUp(t)'
    BY <1>2, <1>3, <1>4, <1>5, <1>7, <2>3, <2>4, SameCall DEF GoesUp
  <2>6. Along(t)'
    BY <1>1, <1>5, <2>3, <2>5, SameCall DEF Along
  <2> QED
    BY <2>2, <2>6, OneTransport
<1> QED
  BY <1>6, <1>7

\* The two handlers answer as the call deserves, or panic with it.
LEMMA HandlerStep ==
    ASSUME IInv, ScoreHandler \/ ServerScore
    PROVE  IInv'
<1> DEFINE answer(t) == IF t = "http" THEN call.outcome ELSE toProtoDecision(call.outcome)
<1>1. CallOK /\ Required # {}
  BY DEF IInv, CallOK, Required
<1>2. PICK t \in Transports :
        /\ At(t, "handler", "down")
        /\ \/ t = "http" /\ call.body = "oversized" /\ Refuse(t, "tooLarge")
           \/ call.body # "oversized" /\ ~ (call.body = "wellFormed" /\ Valid) /\ Refuse(t, "invalid")
           \/ call.body = "wellFormed" /\ Valid /\ Score(t, Required, answer(t))
  <2>1. CASE ScoreHandler
    BY <2>1 DEF ScoreHandler, Valid, Transports
  <2>2. CASE ServerScore
    <3>1. call.body = "wellFormed" /\ (~call.isApplication => ~Valid)
      BY <1>1, <2>2 DEF ServerScore, At, CallOK, Valid
    <3> QED
      BY <2>2, <3>1 DEF ServerScore, Valid, Transports
  <2> QED
    BY <2>1, <2>2
<1>3. /\ depth[t] >= 3 /\ depth[t] = Innermost(t)
      /\ mode[t] = "down" /\ (t = "grpc" => call.body = "wellFormed")
  BY <1>2, Layers DEF At, Transports, Innermost
<1>4. ~Rejected
  BY <1>3 DEF IInv, Along, GoesDown
<1>5. CASE call.body = "oversized" /\ Refuse(t, "tooLarge")
  <2>1. ~Reached /\ Status = "tooLarge"
    BY <1>4, <1>5 DEF Reached, Status
  <2> QED
    BY <1>3, <1>5, <2>1, RefuseStep
<1>6. CASE call.body # "oversized" /\ ~ (call.body = "wellFormed" /\ Valid) /\ Refuse(t, "invalid")
  <2>1. ~Reached /\ Status = "invalid"
    BY <1>4, <1>6 DEF Reached, Status
  <2> QED
    BY <1>3, <1>6, <2>1, RefuseStep
<1>7. CASE call.body = "wellFormed" /\ Valid /\ Score(t, Required, answer(t))
  <2>1. Reached
    BY <1>4, <1>7 DEF Reached
  <2> QED
    BY <1>3, <1>7, <2>1, ScoreStep
<1> QED
  BY <1>2, <1>5, <1>6, <1>7

\* On the way up one line is logged, with the status the client gets.
LEMMA LogStep ==
    ASSUME IInv, LoggingMW \/ LoggingInterceptor
    PROVE  IInv'
<1>1. PICK t \in Transports :
        /\ At(t, "logging", "up")
        /\ Log(t, IF t = "http" THEN RecordedStatus ELSE response[t])
  BY DEF LoggingMW, LoggingInterceptor, Transports
<1>2. depth[t] = 2 /\ mode[t] = "up" /\ (t = "grpc" => call.body = "wellFormed")
  BY <1>1, Layers DEF At, Transports
<1>3. GoesUp(t) /\ Along(t)
  BY <1>2 DEF IInv, Along
<1>4. id[t] = RequestId /\ response[t] = Status /\ log[t] = <<>>
      /\ (t = "http" => RecordedStatus = Status)
  <2>1. Status # "none"
    BY DEF Status
  <2> QED
    BY <1>2, <1>3, <2>1 DEF GoesUp, RecordedStatus
<1> DEFINE line == [id |-> RequestId, status |-> Status]
<1>5. /\ log' = [log EXCEPT ![t] = Append(log[t], line)]
      /\ depth' = [depth EXCEPT ![t] = depth[t] - 1]
      /\ mode' = [mode EXCEPT ![t] = "up"]
      /\ UNCHANGED <<call, authEnabled, id, header, subject, response, decision, scored>>
  BY <1>1, <1>4 DEF Log, Return
<1>6. MovesOnly(t)
  <2> HIDE DEF line
  <2> QED
    BY <1>5, Moving DEF MovesOnly, IInv, PerTransport
<1>7. depth'[t] = 1 /\ mode'[t] = "up" /\ log'[t] = <<line>>
  <2> HIDE DEF line
  <2>1. log'[t] = Append(<<>>, line)
    BY <1>4, <1>5, Moving DEF IInv, PerTransport
  <2>2. Append(<<>>, line) = <<line>>
    OBVIOUS
  <2>3. depth'[t] = depth[t] - 1 /\ mode'[t] = "up"
    BY <1>5, Moving DEF IInv, PerTransport
  <2> QED
    BY <1>2, <2>1, <2>2, <2>3
<1>8. GoesUp(t)'
  BY <1>2, <1>3, <1>5, <1>7, SameCall DEF GoesUp, Innermost
<1>9. Along(t)'
  BY <1>2, <1>3, <1>5, <1>7, <1>8, SameCall DEF Along
<1> QED
  BY <1>6, <1>9, OneTransport

\* RecoverMW turns the panic that comes up over HTTP into an answer.
LEMMA RecoverStep ==
    ASSUME IInv, RecoverMW
    PROVE  IInv'
<1> DEFINE t == "http"
<1>1. t \in Transports
  BY DEF Transports
<1>2. depth[t] = 3 /\ mode[t] = "panic"
  BY <1>1, Layers DEF RecoverMW, At
<1>3. GoesUpPanicking(t) /\ Along(t)
  BY <1>1, <1>2 DEF IInv, Along
<1>4. response[t] = "none" /\ Reached /\ Panics /\ Status = "internal" /\ Answer(t) = "none"
  BY <1>3 DEF GoesUpPanicking, Panics, Status, Answer, Reached
<1>5. /\ response' = [response EXCEPT ![t] = Status]
      /\ depth' = [depth EXCEPT ![t] = depth[t] - 1]
      /\ mode' = [mode EXCEPT ![t] = "up"]
      /\ UNCHANGED <<call, authEnabled, id, header, subject, decision, log, scored>>
  BY <1>4 DEF RecoverMW, Return
<1>6. MovesOnly(t)
  BY <1>1, <1>5, Moving DEF MovesOnly, IInv, PerTransport
<1>7. response'[t] = Status /\ depth'[t] = 2 /\ mode'[t] = "up"
  BY <1>1, <1>2, <1>5, Moving DEF IInv, PerTransport
<1>8. GoesUp(t)'
  BY <1>3, <1>4, <1>5, <1>7, SameCall DEF GoesUp, GoesUpPanicking, Innermost
<1>9. Along(t)'
  BY <1>3, <1>5, <1>7, <1>8, SameCall DEF Along
<1> QED
  BY <1>1, <1>6, <1>9, OneTransport

\* The layers that run no code on the way up leave the answer alone.
LEMMA PassUpStep ==
    ASSUME IInv, NEW t \in Transports, PassUp(t)
    PROVE  IInv'
<1>1. /\ depth' = [depth EXCEPT ![t] = depth[t] - 1]
      /\ mode' = [mode EXCEPT ![t] = mode[t]]
      /\ UNCHANGED <<call, authEnabled, id, header, subject, response, decision, log, scored>>
  BY DEF PassUp, Return
<1>2. MovesOnly(t)
  BY <1>1, Moving DEF MovesOnly, IInv, PerTransport
<1>3. depth'[t] = depth[t] - 1 /\ mode'[t] = mode[t]
  BY <1>1, Moving DEF IInv, PerTransport
<1>4. /\ \/ mode[t] = "up" /\ depth[t] # 2
         \/ mode[t] = "panic" /\ (t = "http" => depth[t] # 3)
      /\ depth[t] > 0 /\ (t = "grpc" => call.body = "wellFormed")
  BY Layers DEF PassUp, At, Transports
<1>5. Along(t)
  BY DEF IInv
<1>6. CASE mode[t] = "up"
  <2>1. GoesUp(t)
    BY <1>5, <1>6 DEF Along
  <2>2. /\ depth'[t] \in 0..(Innermost(t) - 1)
        /\ depth'[t] <= 1 <=> depth[t] <= 1
    BY <1>3, <1>4, <1>6, <2>1 DEF GoesUp, Innermost
  <2>3. GoesUp(t)'
    BY <1>1, <2>1, <2>2, SameCall DEF GoesUp
  <2> QED
    BY <1>1, <1>2, <1>3, <1>4, <1>5, <1>6, <2>3, SameCall, OneTransport DEF Along
<1>7. CASE mode[t] = "panic"
  <2>1. GoesUpPanicking(t)
    BY <1>5, <1>7 DEF Along
  <2>2. /\ depth'[t] \in 0..(Innermost(t) - 1)
        /\ t = "http" => depth'[t] >= 3
    BY <1>3, <1>4, <1>7, <2>1 DEF GoesUpPanicking, Innermost
  <2>3. GoesUpPanicking(t)'
    BY <1>1, <2>1, <2>2, SameCall DEF GoesUpPanicking
  <2> QED
    BY <1>1, <1>2, <1>3, <1>4, <1>5, <1>7, <2>3, SameCall, OneTransport DEF Along
<1> QED
  BY <1>4, <1>6, <1>7

\* Both calls start at the outermost layer.
LEMMA InitInvariant == Init => IInv
<1> SUFFICES ASSUME Init PROVE IInv
  OBVIOUS
<1>1. CallOK
  BY DEF Init, CallOK
<1>2. PerTransport
  BY DEF Init, PerTransport, Total
<1>3. ASSUME NEW t \in Transports PROVE Along(t)
  <2>1. /\ depth[t] = 1 /\ mode[t] = "down" /\ id[t] = Empty /\ header[t] = Empty
        /\ subject[t] = Empty /\ response[t] = "none" /\ decision[t] = "none"
        /\ log[t] = <<>> /\ scored[t] = NotScored
    BY DEF Init
  <2>2. depth[t] \in 1..Innermost(t) /\ depth[t] # Innermost(t)
    BY <2>1 DEF Innermost
  <2> QED
    BY <2>1, <2>2 DEF Along, GoesDown
<1> QED
  BY <1>1, <1>2, <1>3 DEF IInv

\* Every layer of either chain keeps the invariant.
LEMMA StepInvariant == IInv /\ [Next]_vars => IInv'
<1> SUFFICES ASSUME IInv, [Next]_vars PROVE IInv'
  OBVIOUS
<1>1. CASE UNCHANGED vars
  <2>1. MovesOnly("http") /\ "http" \in Transports
    BY <1>1, Moving DEF vars, MovesOnly, IInv, PerTransport, Transports
  <2>2. Along("http")
    BY <2>1 DEF IInv
  <2>3. Along("http")'
    BY <1>1, <2>2, SameCall DEF vars, Along, GoesDown, GoesUp, GoesUpPanicking, Innermost, NotScored
  <2> QED
    BY <2>1, <2>3, OneTransport
<1> QED
  BY <1>1, RequestIdStep, LogStep, RecoverStep, AuthStep, HandlerStep, PassDownStep, PassUpStep
     DEF Next

\* The inductive invariant: at every layer the answer is what the call deserves.
LEMMA Invariant == Spec => []IInv
  BY InitInvariant, StepInvariant, PTL DEF Spec

-----------------------------------------------------------------------------
(* Theorems.                                                               *)

\* The id and the subject of a call.
LEMMA CallTypes ==
    ASSUME CallOK
    PROVE  /\ RequestId \in Ids \cup {"generated"} /\ RequestId # Empty
           /\ call.id # Empty => RequestId = call.id
           /\ ~Rejected /\ authEnabled =>
                /\ call.scheme = "Bearer" /\ Validate(call.token) = "ok"
                /\ call.token \in Tokens /\ Subject = call.token.sub
           /\ ~authEnabled => Subject = Empty
           /\ Subject \in {tok.sub : tok \in Tokens} \cup {Empty}
<1>1. call.id \in Ids \cup {Empty} /\ call.token \in Tokens \cup {NoToken}
      /\ call.scheme \in {"Bearer", "Basic"}
  BY DEF CallOK, Call
<1>2. RequestId \in Ids \cup {"generated"} /\ (call.id # Empty => RequestId = call.id)
  BY <1>1 DEF RequestId
<1>3. Empty # "generated"
  BY Zenon DEF Empty
<1>4. RequestId # Empty
  BY <1>2, <1>3, EdgeAssumption
<1>5. Validate(NoToken) = "ErrNoToken"
  BY DEF Validate
<1>6. ~Rejected /\ authEnabled =>
        /\ call.scheme = "Bearer" /\ Validate(call.token) = "ok"
        /\ call.token \in Tokens /\ Subject = call.token.sub
  BY <1>1, <1>5 DEF Rejected, BearerToken, Subject
<1>7. (~authEnabled => Subject = Empty) /\ (Rejected => Subject = Empty)
  BY DEF Subject
<1> QED
  BY <1>2, <1>4, <1>6, <1>7

\* Every variable keeps its type and no call leaves more than one log line.
THEOREM TypeCorrect == Spec => []TypeOK
<1>1. IInv => TypeOK
  <2> SUFFICES ASSUME IInv PROVE TypeOK
    OBVIOUS
  <2>1. call \in Call /\ authEnabled \in BOOLEAN
    BY DEF IInv, CallOK
  <2>2. /\ RequestId \in Ids \cup {"generated"}
        /\ Subject \in {tok.sub : tok \in Tokens} \cup {Empty}
    BY CallTypes DEF IInv
  <2>3. Status \in Statuses
    BY DEF Status, Statuses
  <2>4. \A t : Answer(t) \in Decisions \cup {toProtoDecision(d) : d \in Decisions} \cup {"none"}
    <3>1. call.outcome \in Decisions \cup {"panic"}
      BY <2>1 DEF Call, Decisions
    <3>2. Panics \/ ~Reached \/ call.outcome # "panic"
      BY DEF Panics
    <3> QED
      BY <3>1, <3>2 DEF Answer
  <2>5. ScoredAs.application \subseteq Required /\ NotScored.application \subseteq Required
    BY DEF ScoredAs, NotScored
  <2>6. ASSUME NEW t \in Transports
        PROVE  /\ depth[t] \in 0..5
               /\ mode[t] \in {"down", "up", "panic"}
               /\ {id[t], header[t]} \subseteq Ids \cup {Empty, "generated"}
               /\ subject[t] \in {tok.sub : tok \in Tokens} \cup {Empty}
               /\ response[t] \in Statuses \cup {"none"}
               /\ decision[t] \in Decisions \cup {toProtoDecision(d) : d \in Decisions} \cup {"none"}
               /\ Len(log[t]) <= 1
               /\ \A n \in 1..Len(log[t]) : log[t][n].status \in Statuses
               /\ scored[t].application \subseteq Required
    <3>1. Along(t)
      BY DEF IInv
    <3>2. depth[t] \in 0..5 /\ mode[t] \in {"down", "up", "panic"}
      <4>1. CASE GoesDown(t)
        BY <3>1, <4>1 DEF GoesDown, Innermost, Along
      <4>2. CASE GoesUp(t)
        BY <3>1, <4>2 DEF GoesUp, Innermost, Along
      <4>3. CASE GoesUpPanicking(t)
        BY <3>1, <4>3 DEF GoesUpPanicking, Innermost, Along
      <4> QED
        BY <3>1, <4>1, <4>2, <4>3 DEF Along
    <3>3. /\ {id[t], header[t]} \subseteq Ids \cup {Empty, "generated"}
          /\ subject[t] \in {tok.sub : tok \in Tokens} \cup {Empty}
      <4>1. id[t] \in {Empty, RequestId}
        BY <3>1 DEF Along, GoesDown, GoesUp, GoesUpPanicking
      <4> QED
        BY <2>2, <3>1, <4>1 DEF Along
    <3>4. /\ response[t] \in {"none", Status} /\ decision[t] \in {"none", Answer(t)}
          /\ scored[t] \in {NotScored, ScoredAs}
          /\ log[t] \in {<<>>, <<[id |-> RequestId, status |-> Status]>>}
      BY <3>1 DEF Along, GoesDown, GoesUp, GoesUpPanicking
    <3>5. Len(log[t]) <= 1 /\ \A n \in 1..Len(log[t]) : log[t][n].status \in Statuses
      <4>1. CASE log[t] = <<>>
        BY <4>1
      <4>2. CASE log[t] = <<[id |-> RequestId, status |-> Status]>>
        BY <2>3, <4>2
      <4> QED
        BY <3>4, <4>1, <4>2
    <3> QED
      BY <2>3, <2>4, <2>5, <3>2, <3>3, <3>4, <3>5
  <2> QED
    BY <2>1, <2>6 DEF TypeOK
<1> QED
  BY <1>1, Invariant, PTL

\* Every call over HTTP is answered, also one whose handler panics, and leaves
\* one access-log line with the status and the id the client got; so does
\* every call over gRPC whose handler does not panic (middleware.go:52-92,
\* interceptors.go:32-48).
THEOREM OneTrueLogLine == Spec => []AccessLogged
<1>1. IInv => AccessLogged
  <2> SUFFICES ASSUME IInv PROVE AccessLogged
    OBVIOUS
  <2>1. Along("http") /\ "http" \in Transports
    BY DEF IInv, Transports
  <2>2. ~Uncaught("http")
    BY <2>1 DEF Uncaught, Along, GoesUpPanicking
  <2>3. ASSUME NEW t \in Transports, Finished(t)
        PROVE  /\ response[t] # "none"
               /\ log[t] = <<[id |-> id[t], status |-> response[t]]>>
    <3>1. GoesUp(t) /\ depth[t] = 0
      BY <2>3 DEF IInv, Along, Finished
    <3>2. Status # "none"
      BY DEF Status
    <3> QED
      BY <3>1, <3>2 DEF GoesUp
  <2>4. Finished("http") => header["http"] = id["http"]
    BY <2>1 DEF Along
  <2> QED
    BY <2>2, <2>3, <2>4 DEF AccessLogged
<1> QED
  BY <1>1, Invariant, PTL

\* The same call gets the same answer over either transport, and reaches the
\* scoring service as the same caller or not at all (interceptors.go:17-20,
\* server.go:2-3).
THEOREM TransportsAgree == Spec => []Alike
<1>1. IInv => Alike
  <2> SUFFICES ASSUME IInv, \A t \in Transports : Finished(t) PROVE Alike
    BY DEF Alike
  <2>1. GoesUp("http") /\ GoesUp("grpc")
    BY DEF IInv, Along, Finished, Transports
  <2>2. /\ response["http"] = response["grpc"] /\ scored["http"] = scored["grpc"]
        /\ decision["http"] = Answer("http") /\ decision["grpc"] = Answer("grpc")
    BY <2>1 DEF GoesUp
  <2>3. <<Answer("http"), Answer("grpc")>> \in SameDecision
    <3>1. call.outcome \in {"APPROVE", "DECLINE", "MANUAL_REVIEW", "panic"}
      BY DEF IInv, CallOK, Call
    <3>2. \/ Answer("http") = "none" /\ Answer("grpc") = "none"
          \/ /\ call.outcome # "panic"
             /\ Answer("http") = call.outcome /\ Answer("grpc") = toProtoDecision(call.outcome)
      BY DEF Answer, Panics
    <3> QED
      BY <3>1, <3>2 DEF SameDecision, toProtoDecision
  <2> QED
    BY <2>2, <2>3 DEF Alike
<1> QED
  BY <1>1, Invariant, PTL

\* What is scored is complete, carries an id, and comes with a token that the
\* validator accepts, under that token's subject (middleware.go:98-118,
\* interceptors.go:54-70).
THEOREM OnlyAdmittedAreScored == Spec => []ScoredAsCaller
<1>1. IInv => ScoredAsCaller
  <2> SUFFICES ASSUME IInv, NEW t \in Transports, scored[t] # NotScored
               PROVE  /\ scored[t].application = Required
                      /\ scored[t].id # Empty /\ (call.id # Empty => scored[t].id = call.id)
                      /\ authEnabled => /\ call.scheme = "Bearer" /\ Validate(call.token) = "ok"
                                        /\ scored[t].subject = call.token.sub
                      /\ ~authEnabled => scored[t].subject = Empty
    BY DEF ScoredAsCaller
  <2>1. scored[t] = ScoredAs
    BY DEF IInv, Along, GoesDown, GoesUp, GoesUpPanicking
  <2>2. Reached /\ scored[t] = [id |-> RequestId, subject |-> Subject, application |-> Required]
    BY <2>1 DEF ScoredAs
  <2>3. ~Rejected
    BY <2>2 DEF Reached
  <2> QED
    BY <2>2, <2>3, CallTypes DEF IInv
<1> QED
  BY <1>1, Invariant, PTL

=============================================================================

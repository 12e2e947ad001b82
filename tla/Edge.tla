-------------------------------- MODULE Edge --------------------------------
(* The two edges of the server: REST (src/internal/httpapi) and gRPC       *)
(* (src/internal/grpcapi).  The same call is made over both, through each  *)
(* one's chain of middleware, with the same validator of tokens            *)
(* (src/internal/auth), to the same scoring service.                       *)
(*                                                                         *)
(* A call goes down its chain layer by layer to the handler and back up;   *)
(* a panic comes up through the layers without running their code, except  *)
(* for a layer that recovers.                                              *)
(*                                                                         *)
(* Abstractions.  A token is the record of what HS256 checks in it.  An    *)
(* application is the set of its required fields that are not empty.       *)
(* Malformed and oversized bodies exist over HTTP only: gRPC's framing and *)
(* decoding are not this repository's.  The wording of errors is left out. *)
EXTENDS Naturals, Sequences

CONSTANTS
    Ids,     \* request ids that clients send
    Tokens,  \* tokens that clients send
    NoToken  \* the empty token

\* An absent id, or an absent subject.
Empty == ""

Token ==
    [segments : Nat, alg : STRING, signed : BOOLEAN, payload : {"json", "garbage"},
     expired : BOOLEAN, sub : STRING]

ASSUME EdgeAssumption ==
    /\ Empty \notin Ids /\ "generated" \notin Ids
    /\ \A t \in Tokens : t \in Token
    /\ NoToken \notin Tokens

Transports == {"http", "grpc"}
Required   == {"applicant_id", "product"}

\* What a client sends, and what comes of scoring it.
Call ==
    [id            : Ids \cup {Empty},
     scheme        : {"Bearer", "Basic"},
     token         : Tokens \cup {NoToken},
     body          : {"wellFormed", "malformed", "oversized"},
     application   : SUBSET Required,
     isApplication : BOOLEAN,  \* false: JSON null, or no application message
     outcome       : {"APPROVE", "DECLINE", "MANUAL_REVIEW", "panic"}]

NotScored == [id |-> Empty, subject |-> Empty, application |-> {}]

VARIABLES
    call,        \* the call made over both transports
    authEnabled, \* a validator is configured
    depth,       \* the layer each transport is at
    mode,        \* whether it goes down, up, or up panicking
    id,          \* the request id in its context
    header,      \* X-Request-ID on the response
    subject,     \* the subject of the claims in its context
    response,    \* the status it has answered with
    decision,    \* the decision in its answer
    log,         \* its access log
    scored       \* what reached the scoring service, as whom

vars == <<call, authEnabled, depth, mode, id, header, subject, response,
          decision, log, scored>>

-----------------------------------------------------------------------------
(* The chains.                                                             *)

\* Mutation: recovery outside logging.
HTTPChainRecoversOutside == <<"requestID", "recover", "logging", "auth", "handler">>

\* Mutation: logging registered for the router and again for the route.
HTTPChainLogsTwice == <<"requestID", "logging", "recover", "logging", "auth", "handler">>

HTTPChain == <<"requestID", "logging", "recover", "auth", "handler">>
GRPCChain == <<"requestID", "logging", "auth", "handler">>

Layer(t) == IF t = "http" THEN HTTPChain[depth[t]] ELSE GRPCChain[depth[t]]

Init ==
    /\ call \in {c \in Call : ~c.isApplication => c.application = {}}
    /\ authEnabled \in BOOLEAN
    /\ depth = [t \in Transports |-> 1]
    /\ mode = [t \in Transports |-> "down"]
    /\ id = [t \in Transports |-> Empty]
    /\ header = [t \in Transports |-> Empty]
    /\ subject = [t \in Transports |-> Empty]
    /\ response = [t \in Transports |-> "none"]
    /\ decision = [t \in Transports |-> "none"]
    /\ log = [t \in Transports |-> <<>>]
    /\ scored = [t \in Transports |-> NotScored]

Finished(t) == depth[t] = 0 /\ mode[t] = "up"

\* No layer recovered: net/http drops the connection, and over gRPC the whole
\* process dies.
Uncaught(t) == depth[t] = 0 /\ mode[t] = "panic"

At(t, layer, m) ==
    /\ ~Uncaught("grpc")
    /\ mode[t] = m /\ depth[t] > 0
    /\ Layer(t) = layer
    /\ t = "grpc" => call.body = "wellFormed"

Deeper(t) ==
    /\ depth' = [depth EXCEPT ![t] = @ + 1]
    /\ UNCHANGED mode

\* The call turns back here, or goes on up.
Return(t, m) ==
    /\ depth' = [depth EXCEPT ![t] = @ - 1]
    /\ mode' = [mode EXCEPT ![t] = m]

-----------------------------------------------------------------------------
(* Request ids and access logs.                                            *)

\* The id the client sent, or one generated.
RequestId == IF call.id = Empty THEN "generated" ELSE call.id

RequestIDMW ==
    /\ At("http", "requestID", "down")
    /\ id' = [id EXCEPT !["http"] = RequestId]
    /\ header' = [header EXCEPT !["http"] = RequestId]
    /\ Deeper("http")
    /\ UNCHANGED <<call, authEnabled, subject, response, decision, log, scored>>

\* No id goes back to a gRPC client.
RequestIDInterceptor ==
    /\ At("grpc", "requestID", "down")
    /\ id' = [id EXCEPT !["grpc"] = RequestId]
    /\ Deeper("grpc")
    /\ UNCHANGED <<call, authEnabled, header, subject, response, decision, log, scored>>

Log(t, status) ==
    /\ log' = [log EXCEPT ![t] = Append(@, [id |-> id[t], status |-> status])]
    /\ Return(t, "up")
    /\ UNCHANGED <<call, authEnabled, id, header, subject, response, decision, scored>>

\* statusRecorder has the first status written, 200 when none was.
RecordedStatus == IF response["http"] = "none" THEN "ok" ELSE response["http"]

LoggingMW          == At("http", "logging", "up") /\ Log("http", RecordedStatus)
LoggingInterceptor == At("grpc", "logging", "up") /\ Log("grpc", response["grpc"])

RecoverMW ==
    /\ At("http", "recover", "panic")
    /\ response' = [response EXCEPT !["http"] = IF @ = "none" THEN "internal" ELSE @]
    /\ Return("http", "up")
    /\ UNCHANGED <<call, authEnabled, id, header, subject, decision, log, scored>>

-----------------------------------------------------------------------------
(* Authentication.                                                         *)

BearerToken == IF call.scheme = "Bearer" THEN call.token ELSE NoToken

\* HS256.Validate
Validate(token) ==
    CASE token = NoToken -> "ErrNoToken"
      [] token # NoToken ->
           CASE \/ token.segments # 3
                \/ token.alg # "HS256"
                \/ ~token.signed
                \/ token.payload # "json" -> "ErrInvalidToken"
             [] OTHER -> IF token.expired THEN "ErrExpired" ELSE "ok"

\* An answer without a score.
Refuse(t, status) ==
    /\ response' = [response EXCEPT ![t] = status]
    /\ Return(t, "up")
    /\ UNCHANGED <<call, authEnabled, id, header, subject, decision, log, scored>>

\* The claims go into the context; without a validator there are none.
Admit(t) ==
    /\ subject' = [subject EXCEPT ![t] = IF authEnabled THEN BearerToken.sub ELSE @]
    /\ Deeper(t)
    /\ UNCHANGED <<call, authEnabled, id, header, response, decision, log, scored>>

Rejected == authEnabled /\ Validate(BearerToken) # "ok"

AuthMW ==
    /\ At("http", "auth", "down")
    /\ \/ Rejected /\ Refuse("http", "unauthenticated")
       \/ ~Rejected /\ Admit("http")

\* Mutation: the error of an expired token is taken for no error.
AuthInterceptorAdmitsExpired ==
    /\ At("grpc", "auth", "down")
    /\ LET refused == authEnabled /\ Validate(BearerToken) \notin {"ok", "ErrExpired"}
       IN  \/ refused /\ Refuse("grpc", "unauthenticated")
           \/ ~refused /\ Admit("grpc")

AuthInterceptor ==
    /\ At("grpc", "auth", "down")
    /\ \/ Rejected /\ Refuse("grpc", "unauthenticated")
       \/ ~Rejected /\ Admit("grpc")

-----------------------------------------------------------------------------
(* The handlers.                                                           *)

\* A panic leaves the handler, or its answer does.
Score(t, application, answer) ==
    /\ scored' = [scored EXCEPT
                    ![t] = [id |-> id[t], subject |-> subject[t], application |-> application]]
    /\ IF call.outcome = "panic"
       THEN Return(t, "panic") /\ UNCHANGED <<response, decision>>
       ELSE /\ Return(t, "up")
            /\ response' = [response EXCEPT ![t] = "ok"]
            /\ decision' = [decision EXCEPT ![t] = answer]
    /\ UNCHANGED <<call, authEnabled, id, header, subject, log>>

\* validate; JSON null decodes to an application without fields.
Valid == call.application = Required

ScoreHandler ==
    /\ At("http", "handler", "down")
    /\ \/ call.body = "oversized" /\ Refuse("http", "tooLarge")
       \/ call.body = "malformed" /\ Refuse("http", "invalid")
       \/ call.body = "wellFormed" /\ ~Valid /\ Refuse("http", "invalid")
       \/ call.body = "wellFormed" /\ Valid /\ Score("http", call.application, call.outcome)

\* Mutation: two decisions swapped.
toProtoDecisionSwapped(d) ==
    CASE d = "APPROVE"       -> "DECISION_APPROVE"
      [] d = "DECLINE"       -> "DECISION_MANUAL_REVIEW"
      [] d = "MANUAL_REVIEW" -> "DECISION_DECLINE"
      [] OTHER               -> "DECISION_UNSPECIFIED"

toProtoDecision(d) ==
    CASE d = "APPROVE"       -> "DECISION_APPROVE"
      [] d = "DECLINE"       -> "DECISION_DECLINE"
      [] d = "MANUAL_REVIEW" -> "DECISION_MANUAL_REVIEW"
      [] OTHER               -> "DECISION_UNSPECIFIED"

ServerScore ==
    /\ At("grpc", "handler", "down")
    /\ \/ ~call.isApplication /\ Refuse("grpc", "invalid")
       \/ call.isApplication /\ call.application # Required /\ Refuse("grpc", "invalid")
       \/ call.isApplication /\ call.application = Required
          /\ Score("grpc", call.application, toProtoDecision(call.outcome))

-----------------------------------------------------------------------------
\* Layers that do nothing on the way down, or nothing on the way up.
PassDown(t) ==
    /\ At(t, "logging", "down") \/ At(t, "recover", "down")
    /\ Deeper(t)
    /\ UNCHANGED <<call, authEnabled, id, header, subject, response, decision, log, scored>>

PassUp(t) ==
    /\ \/ At(t, "auth", "up") \/ At(t, "requestID", "up") \/ At(t, "recover", "up")
       \/ At(t, "auth", "panic") \/ At(t, "requestID", "panic") \/ At(t, "logging", "panic")
    /\ Return(t, mode[t])
    /\ UNCHANGED <<call, authEnabled, id, header, subject, response, decision, log, scored>>

Next ==
    \/ RequestIDMW \/ LoggingMW \/ RecoverMW \/ AuthMW \/ ScoreHandler
    \/ RequestIDInterceptor \/ LoggingInterceptor \/ AuthInterceptor \/ ServerScore
    \/ \E t \in Transports : PassDown(t) \/ PassUp(t)

Spec == Init /\ [][Next]_vars

-----------------------------------------------------------------------------
(* Properties.                                                             *)

Statuses == {"ok", "invalid", "tooLarge", "unauthenticated", "internal"}

Decisions == {"APPROVE", "DECLINE", "MANUAL_REVIEW"}

\* Every variable has its type; a call leaves one log line at most.
TypeOK ==
    /\ call \in Call /\ authEnabled \in BOOLEAN
    /\ \A t \in Transports :
         /\ depth[t] \in 0..5
         /\ mode[t] \in {"down", "up", "panic"}
         /\ {id[t], header[t]} \subseteq Ids \cup {Empty, "generated"}
         /\ subject[t] \in {tok.sub : tok \in Tokens} \cup {Empty}
         /\ response[t] \in Statuses \cup {"none"}
         /\ decision[t] \in Decisions \cup {toProtoDecision(d) : d \in Decisions} \cup {"none"}
         /\ Len(log[t]) <= 1
         /\ \A n \in 1..Len(log[t]) : log[t][n].status \in Statuses
         /\ scored[t].application \subseteq Required

\* Each call over HTTP, even one whose handler panics, is answered, and leaves
\* one access-log line, with the status the client got and the request id on
\* its response; likewise over gRPC, unless the handler panics
\* (middleware.go:79-81, "the access log still records the 500").
AccessLogged ==
    /\ ~Uncaught("http")
    /\ \A t \in Transports : Finished(t) =>
         /\ response[t] # "none"
         /\ log[t] = <<[id |-> id[t], status |-> response[t]]>>
    /\ Finished("http") => header["http"] = id["http"]

SameDecision ==
    {<<"none", "none">>, <<"APPROVE", "DECISION_APPROVE">>,
     <<"DECLINE", "DECISION_DECLINE">>, <<"MANUAL_REVIEW", "DECISION_MANUAL_REVIEW">>}

\* The same call gets the same answer over either transport, and reaches the
\* scoring service, if it does, with the same application, request id and
\* subject (interceptors.go:17-20, "a request is treated identically over
\* either transport"; server.go:2-3, "REST and gRPC callers always get
\* identical decisions").
Alike ==
    (\A t \in Transports : Finished(t)) =>
        /\ response["http"] = response["grpc"]
        /\ <<decision["http"], decision["grpc"]>> \in SameDecision
        /\ scored["http"] = scored["grpc"]

\* What reaches the scoring service is complete, carries a request id, and
\* comes, when there is a validator, with a token that it accepts and under
\* that token's subject (middleware.go:98-118, interceptors.go:54-70).
ScoredAsCaller ==
    \A t \in Transports : scored[t] # NotScored =>
        /\ scored[t].application = Required
        /\ scored[t].id # Empty /\ (call.id # Empty => scored[t].id = call.id)
        /\ authEnabled => /\ call.scheme = "Bearer" /\ Validate(call.token) = "ok"
                          /\ scored[t].subject = call.token.sub
        /\ ~authEnabled => scored[t].subject = Empty
=============================================================================

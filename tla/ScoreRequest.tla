---------------------------- MODULE ScoreRequest ----------------------------
(* One scoring request, from service.Score (src/internal/service/          *)
(* scoring.go) through the two-phase pipeline (src/internal/scorer/        *)
(* scorer.go and pipeline.go) to the event handed to the publisher and the *)
(* answer given to the caller.                                             *)
(*                                                                         *)
(* The processes are the request's own goroutine (pc) and one goroutine    *)
(* per independent vendor (g), which outlives the request when Stage A     *)
(* stops waiting for it.  They share the buffered channel `results`, the   *)
(* slice `providers` under the mutex mu, and three nested contexts.        *)
(*                                                                         *)
(* Abstractions.  Deadlines are events that may occur at any moment; a     *)
(* deadline of an outer context ends the inner ones.  A vendor's report is *)
(* the one fixed for it by `opinion` and the signals it is enriched with.  *)
(* The persist mode is as-you-go (in combined mode obs is nil and the      *)
(* event carries no evidence).                                             *)
EXTENDS Decision, Sequences

CONSTANTS
    Independent, \* the Stage-A vendors
    Bureau,      \* the Stage-B vendor
    HasBureau,   \* whether a dependent vendor is configured
    Deaf,        \* independent vendors that ignore their context
    Opinions,    \* what a vendor may think of an applicant
    Weight,      \* the weight of each vendor
    Confidence   \* the confidence of each vendor

ASSUME VendorsAssumption ==
    /\ IsFiniteSet(Independent) /\ Independent # {}
    /\ Bureau \notin Independent
    /\ Deaf \subseteq Independent
ASSUME ReportsAssumption ==
    /\ HasBureau \in BOOLEAN
    /\ Opinions \subseteq Int
    /\ Weight \in [Independent \cup {Bureau} -> Nat]
    /\ Confidence \in [Independent \cup {Bureau} -> Nat]

Vendors  == Independent \cup {Bureau}
Contexts == {"request", "outer", "stageA"}

VARIABLES
    pc,        \* where the request's goroutine is
    g,         \* where each Stage-A goroutine is
    ok,        \* the vendors whose Fetch returned a report
    results,   \* the channel: <<vendor, ok>> resolutions in order of arrival
    received,  \* how many resolutions the fan-in has taken
    collected, \* the reports Stage A, then Stage B, collected
    providers, \* the vendors whose record is in the slice of the observer
    done,      \* the contexts that have ended
    opinion,   \* what each vendor thinks of the applicant
    result,    \* what decide returned: the vendors used and the verdict
    ev,        \* the event built: the evidence it carries, and if it is torn
    queue      \* whether the event reached the queue

vars == <<pc, g, ok, results, received, collected, providers, done, opinion,
          result, ev, queue>>

NoResult == [signals |-> {}, decision |-> "none"]
NoEvent  == [evidence |-> {}, torn |-> FALSE]

Init ==
    /\ pc = "stageA"
    /\ g = [v \in Independent |-> "fetching"]
    /\ ok = {}
    /\ results = <<>>
    /\ received = 0
    /\ collected = {}
    /\ providers = {}
    /\ done \in {{}, Contexts}
    /\ opinion \in [Vendors -> Opinions]
    /\ result = NoResult
    /\ ev = NoEvent
    /\ queue = FALSE

ReportFrom(view, v, prior) ==
    [source |-> v, score |-> deriveScore(view[v], prior),
     weight |-> Weight[v], confidence |-> Confidence[v]]

Report(v, prior) == ReportFrom(opinion, v, prior)

-----------------------------------------------------------------------------
(* The contexts.                                                           *)

\* The caller goes away or its own deadline passes; the outer Budget expires;
\* the Stage-A budget expires.
RequestEnds ==
    /\ pc # "returned"
    /\ "request" \notin done
    /\ done' = Contexts
    /\ UNCHANGED <<pc, g, ok, results, received, collected, providers, opinion,
                   result, ev, queue>>

BudgetExpires ==
    /\ "outer" \notin done
    /\ done' = done \cup {"outer", "stageA"}
    /\ UNCHANGED <<pc, g, ok, results, received, collected, providers, opinion,
                   result, ev, queue>>

StageABudgetExpires ==
    /\ "stageA" \notin done
    /\ done' = done \cup {"stageA"}
    /\ UNCHANGED <<pc, g, ok, results, received, collected, providers, opinion,
                   result, ev, queue>>

-----------------------------------------------------------------------------
(* A Stage-A goroutine.                                                    *)

\* The slice is written only by whoever holds mu.
MuFree == pc # "appending" /\ \A v \in Independent : g[v] # "appending"

FetchSucceeds(v) ==
    /\ g[v] = "fetching"
    /\ ok' = ok \cup {v}
    /\ g' = [g EXCEPT ![v] = "observing"]
    /\ UNCHANGED <<pc, results, received, collected, providers, done, opinion,
                   result, ev, queue>>

\* Mutation: the return after the failure was sent is missing.
FetchFailsThrough(v) ==
    /\ g[v] = "fetching"
    /\ Len(results) < Cardinality(Independent)
    /\ results' = Append(results, [source |-> v, ok |-> FALSE])
    /\ g' = [g EXCEPT ![v] = "observing"]
    /\ UNCHANGED <<pc, ok, received, collected, providers, done, opinion,
                   result, ev, queue>>

\* Mutation: a failure is not signalled (the design of scorer/naive.go).
FetchFailsSilently(v) ==
    /\ g[v] = "fetching"
    /\ g' = [g EXCEPT ![v] = "exited"]
    /\ UNCHANGED <<pc, ok, results, received, collected, providers, done,
                   opinion, result, ev, queue>>

\* The vendor fails, its breaker is open, or its context has ended.
FetchFails(v) ==
    /\ g[v] = "fetching"
    /\ g' = [g EXCEPT ![v] = "sendingFailure"]
    /\ UNCHANGED <<pc, ok, results, received, collected, providers, done,
                   opinion, result, ev, queue>>

Lock(v) ==
    /\ g[v] = "observing"
    /\ MuFree
    /\ g' = [g EXCEPT ![v] = "appending"]
    /\ UNCHANGED <<pc, ok, results, received, collected, providers, done,
                   opinion, result, ev, queue>>

AppendAndUnlock(v) ==
    /\ g[v] = "appending"
    /\ providers' = providers \cup {v}
    /\ g' = [g EXCEPT ![v] = "sendingReport"]
    /\ UNCHANGED <<pc, ok, results, received, collected, done, opinion, result,
                   ev, queue>>

\* Mutation: a channel with room for one resolution.
CapacityOne == 1

Capacity == Cardinality(Independent)

Send(v) ==
    /\ g[v] \in {"sendingReport", "sendingFailure"}
    /\ Len(results) < Capacity
    /\ results' = Append(results, [source |-> v, ok |-> g[v] = "sendingReport"])
    /\ g' = [g EXCEPT ![v] = "exited"]
    /\ UNCHANGED <<pc, ok, received, collected, providers, done, opinion,
                   result, ev, queue>>

-----------------------------------------------------------------------------
(* The request's goroutine: Stage A.                                       *)

\* runStageA returns, and its deferred cancel ends the Stage-A context.
LeaveStageA ==
    /\ pc' = IF HasBureau THEN "stageB" ELSE "decide"
    /\ done' = done \cup {"stageA"}

\* Mutation: failures are collected as well.
ReceiveAny ==
    /\ pc = "stageA"
    /\ results # <<>>
    /\ collected' = collected \cup {Report(Head(results).source, {})}
    /\ results' = Tail(results)
    /\ received' = received + 1
    /\ IF received' = Cardinality(Independent)
         THEN LeaveStageA
         ELSE UNCHANGED <<pc, done>>
    /\ UNCHANGED <<g, ok, providers, opinion, result, ev, queue>>

Receive ==
    /\ pc = "stageA"
    /\ results # <<>>
    /\ LET r == Head(results) IN
         collected' = IF r.ok THEN collected \cup {Report(r.source, {})} ELSE collected
    /\ results' = Tail(results)
    /\ received' = received + 1
    /\ IF received' = Cardinality(Independent)
         THEN LeaveStageA
         ELSE UNCHANGED <<pc, done>>
    /\ UNCHANGED <<g, ok, providers, opinion, result, ev, queue>>

\* Mutation: the fan-in does not watch the deadline.
StopWaitingNever == FALSE /\ pc = "stageA" /\ UNCHANGED vars

\* select chooses either ready case, so this may happen although a resolution
\* is waiting in the channel.
StopWaiting ==
    /\ pc = "stageA"
    /\ "stageA" \in done
    /\ LeaveStageA
    /\ UNCHANGED <<g, ok, results, received, collected, providers, opinion,
                   result, ev, queue>>

(* Stage B: the bureau honours the outer context.                          *)

BureauSucceeds ==
    /\ pc = "stageB"
    /\ ok' = ok \cup {Bureau}
    /\ pc' = "observing"
    /\ UNCHANGED <<g, results, received, collected, providers, done, opinion,
                   result, ev, queue>>

BureauFails ==
    /\ pc = "stageB"
    /\ pc' = "decide"
    /\ UNCHANGED <<g, ok, results, received, collected, providers, done,
                   opinion, result, ev, queue>>

LockForBureau ==
    /\ pc = "observing"
    /\ MuFree
    /\ pc' = "appending"
    /\ UNCHANGED <<g, ok, results, received, collected, providers, done,
                   opinion, result, ev, queue>>

\* Mutation: the bureau's report is used without being observed.
CollectBureauUnobserved ==
    /\ pc = "appending"
    /\ collected' = collected \cup {Report(Bureau, collected)}
    /\ pc' = "decide"
    /\ UNCHANGED <<g, ok, results, received, providers, done, opinion, result, ev, queue>>

CollectBureau ==
    /\ pc = "appending"
    /\ providers' = providers \cup {Bureau}
    /\ collected' = collected \cup {Report(Bureau, collected)}
    /\ pc' = "decide"
    /\ UNCHANGED <<g, ok, results, received, done, opinion, result, ev, queue>>

-----------------------------------------------------------------------------
(* The decision, the event and the answer.                                 *)

\* ScoreObserved returns, and its deferred cancel ends the outer context.
Decide ==
    /\ pc = "decide"
    /\ result' = [signals |-> Sources(collected), decision |-> decide(collected)]
    /\ done' = done \cup {"outer", "stageA"}
    /\ pc' = "event"
    /\ UNCHANGED <<g, ok, results, received, collected, providers, opinion, ev,
                   queue>>

\* The event takes the slice without holding mu.  It holds the records added
\* by the vendors collected, whose append happened before their send; it may
\* or may not hold those of vendors given up on; and while a goroutine is
\* appending, the slice header may be read half written.
BuildEvent ==
    /\ pc = "event"
    /\ \E seen \in SUBSET providers, torn \in BOOLEAN :
         /\ providers \cap Sources(collected) \subseteq seen
         /\ torn => \E v \in Independent : g[v] = "appending"
         /\ ev' = [evidence |-> seen, torn |-> torn]
    /\ pc' = "publish"
    /\ UNCHANGED <<g, ok, results, received, collected, providers, done,
                   opinion, result, queue>>

\* Publish succeeds; or it fails, with or without the queue having taken the
\* message, as it must before sending once the request's context has ended.
\* The error is only logged.
Publish ==
    /\ pc = "publish"
    /\ queue' \in BOOLEAN
    /\ pc' = "returned"
    /\ UNCHANGED <<g, ok, results, received, collected, providers, done,
                   opinion, result, ev>>

-----------------------------------------------------------------------------
Goroutine(v) ==
    \/ FetchSucceeds(v) \/ FetchFails(v) \/ Lock(v) \/ AppendAndUnlock(v)
    \/ Send(v)

Request ==
    \/ Receive \/ StopWaiting
    \/ BureauSucceeds \/ BureauFails \/ LockForBureau \/ CollectBureau
    \/ Decide \/ BuildEvent \/ Publish

Finished ==
    /\ pc = "returned"
    /\ \A v \in Independent : g[v] = "exited"
    /\ UNCHANGED vars

Next ==
    \/ RequestEnds \/ BudgetExpires \/ StageABudgetExpires
    \/ \E v \in Independent : Goroutine(v)
    \/ Request
    \/ Finished

Spec == Init /\ [][Next]_vars

(* The timers fire; a goroutine that has its report or its error runs on,  *)
(* and so does the request's own; StopWaiting is taken rather than nothing;*)
(* a vendor that is not deaf returns when its context has ended (the       *)
(* contract of ports.Provider), and the publisher returns.                 *)
Fairness ==
    /\ \A v \in Independent : WF_vars(Lock(v) \/ AppendAndUnlock(v) \/ Send(v))
    /\ WF_vars(Receive \/ LockForBureau \/ CollectBureau \/ Decide \/ BuildEvent)
    /\ WF_vars(BudgetExpires)
    /\ WF_vars(StageABudgetExpires)
    /\ WF_vars(StopWaiting)
    /\ \A v \in Independent \ Deaf :
         WF_vars("stageA" \in done /\ (FetchSucceeds(v) \/ FetchFails(v)))
    /\ WF_vars("outer" \in done /\ (BureauSucceeds \/ BureauFails))
    /\ WF_vars(Publish)

FairSpec == Spec /\ Fairness

-----------------------------------------------------------------------------
(* Safety.                                                                 *)

\* Every variable of a request has its type; the scores collected are on the
\* scale of 0 to 100 (domain.go:62).
TypeOK ==
    /\ pc \in {"stageA", "stageB", "observing", "appending", "decide", "event",
               "publish", "returned"}
    /\ g \in [Independent -> {"fetching", "observing", "appending",
                              "sendingReport", "sendingFailure", "exited"}]
    /\ ok \subseteq Vendors
    /\ results \in Seq([source : Independent, ok : BOOLEAN])
    /\ received \in 0..Cardinality(Independent)
    /\ \A r \in collected : r.source \in Vendors /\ r.score \in 0..100
    /\ providers \subseteq Vendors
    /\ done \subseteq Contexts
    /\ opinion \in [Vendors -> Opinions]
    /\ result \in [signals : SUBSET Vendors, decision : Verdict \cup {"none"}]
    /\ ev \in [evidence : SUBSET Vendors, torn : BOOLEAN]
    /\ queue \in BOOLEAN

\* When the fan-in has taken one resolution per vendor, there is nothing left
\* of Stage A: every goroutine has exited, the channel is empty and exactly
\* the vendors that answered were collected (scorer.go:86-92, "every goroutine
\* sends EXACTLY ONCE").
CompletionExact ==
    received = Cardinality(Independent) =>
        /\ \A v \in Independent : g[v] = "exited"
        /\ results = <<>>
        /\ ok \cap Independent = Sources(collected) \cap Independent

\* Stage A waits only for a resolution that is in the channel or still to be
\* sent: once every vendor has resolved, well or badly, it is never left to a
\* timer to end it (scorer.go:13-17, "COMPLETION-aware").
WaitsForSomeone ==
    pc = "stageA" => results # <<>> \/ \E v \in Independent : g[v] # "exited"

\* The published event carries the evidence of every signal its decision used,
\* although the slice is read without the mutex and goroutines of vendors
\* given up on may still be adding to it (scoring.go:61-77 and 94).
EvidenceCoversDecision ==
    pc \in {"publish", "returned"} => result.signals \subseteq ev.evidence

\* The contract of a scoring request: what it answers is computed from vendors
\* that did answer, enough of them for an automatic decision, and late
\* answers do not change it (domain.go:75-78, pipeline.go:55-63).
Contract ==
    INSTANCE ScoreContract WITH answered <- ok, reply <- result,
                                NoReply <- NoResult
ImplementsContract == Contract!Spec

\* The reports a decision would be made from, with the same vendors heard but
\* another view of the applicant.
ReportsUnder(view, used) ==
    LET prior == {ReportFrom(view, v, {}) : v \in used \cap Independent}
    IN  prior \cup {ReportFrom(view, v, prior) : v \in used \cap {Bureau}}

\* A vendor that had thought worse of the applicant, everything else equal,
\* would not have got him a more lenient decision, although the bureau blends
\* that opinion into its own, scores are clamped and the thresholds are tested
\* in turn (pipeline.go:64-106, simulated.go:100-107).
NeverMoreLenient ==
    pc = "event" =>
        \A v \in result.signals, o \in Opinions : o > opinion[v] =>
            LET worse == [opinion EXCEPT ![v] = o] IN
            Severity[result.decision] <= Severity[decide(ReportsUnder(worse, result.signals))]

\* Vendors that agree are followed: when every opinion used is beyond one
\* threshold, blending and weighting do not bring the decision back, provided
\* coverage is sufficient (pipeline.go:76-104).
UnanimityDecides ==
    pc = "event" /\ Covered(collected) =>
        /\ (\A v \in result.signals : opinion[v] >= DeclineAbove) => result.decision = "DECLINE"
        /\ (\A v \in result.signals : opinion[v] <= ApproveBelow) => result.decision = "APPROVE"

\* No goroutine reads the slice of evidence while another writes it
\* (scoring.go:62, "The observer runs concurrently in the fan-out, hence the
\* mutex"; README.md:35, `go test -race`).
EvidenceIsRaceFree ==
    ~ (pc = "event" /\ \E v \in Independent : g[v] = "appending")

-----------------------------------------------------------------------------
(* Liveness.                                                               *)

\* The caller is answered, even if independent vendors ignore their context
\* and never return (scorer.go:93-94, "defence-in-depth").
Answers == <>(pc = "returned")

\* A goroutine whose vendor honours its context exits, whether or not anyone
\* still reads the channel (scorer.go:87-88, "no goroutine leaks").
NoLeak == \A v \in Independent \ Deaf : <>(g[v] = "exited")
=============================================================================

------------------------- MODULE ScoreRequestProofs -------------------------
(* Proofs about ScoreRequest, for any vendors, opinions, weights and       *)
(* confidences.                                                            *)
EXTENDS ScoreRequest, DecisionProofs

(* The inductive invariant.                                                *)

\* How far a goroutine is, and what has become of its vendor's answer.
Goroutines ==
    \A v \in Independent :
      /\ g[v] \in {"observing", "appending", "sendingReport"} => v \in ok
      /\ g[v] \in {"fetching", "sendingFailure"} => v \notin ok
      /\ g[v] = "sendingReport" => v \in providers
      /\ g[v] = "exited" /\ v \in ok =>
           \/ v \in Sources(collected)
           \/ \E i \in 1..Len(results) : results[i] = [source |-> v, ok |-> TRUE]

\* A report in the channel is one of a vendor that answered and was observed.
Channel ==
    \A i \in 1..Len(results) : results[i].ok => results[i].source \in ok \cap providers

\* Every goroutine that has exited has sent one resolution, taken or waiting.
Exited == {v \in Independent : g[v] = "exited"}

Counted ==
    /\ Cardinality(Exited) = received + Len(results)
    /\ pc = "stageA" => received < Cardinality(Independent)

\* What was collected are the reports of vendors that answered and were
\* observed, the bureau's made from those of Stage A.
Collected ==
    /\ collected = ReportsUnder(opinion, Sources(collected))
    /\ Sources(collected) \subseteq ok \cap providers
    /\ pc \in {"stageA", "stageB", "observing", "appending"} => Bureau \notin Sources(collected)

BureauAsked ==
    /\ pc \in {"stageA", "stageB"} => Bureau \notin ok
    /\ pc \in {"observing", "appending"} => Bureau \in ok

Decided ==
    IF pc \in {"event", "publish", "returned"}
    THEN result = [signals |-> Sources(collected), decision |-> decide(collected)]
    ELSE result = NoResult

IInv ==
    /\ TypeOK /\ Goroutines /\ Channel /\ Counted /\ Collected /\ BureauAsked
    /\ Decided /\ EvidenceCoversDecision

-----------------------------------------------------------------------------
(* Vendors and their reports.                                              *)

\* There are finitely many vendors, and at least one of Stage A.
LEMMA VendorsFinite ==
    /\ IsFiniteSet(Vendors) /\ Independent \subseteq Vendors /\ Bureau \in Vendors
    /\ Bureau \notin Independent
    /\ \A used \in SUBSET Vendors : IsFiniteSet(used)
    /\ Cardinality(Independent) \in Nat \ {0}
<1>1. IsFiniteSet(Independent) /\ Independent # {} /\ Bureau \notin Independent
  BY VendorsAssumption
<1>2. IsFiniteSet(Vendors)
  BY <1>1, FS_AddElement DEF Vendors
<1>3. Cardinality(Independent) \in Nat \ {0}
  BY <1>1, FS_CardinalityType, FS_EmptySet
<1> QED
  BY <1>1, <1>2, <1>3, FS_Subset DEF Vendors

\* Weights and confidences are numbers.
LEMMA WeightsNat ==
    \A v \in Vendors : Weight[v] \in Nat /\ Confidence[v] \in Nat
  BY ReportsAssumption DEF Vendors

\* The reports of Stage A, and those of all vendors used, by vendor.
StageA(view, used) == [v \in used \cap Independent |-> ReportFrom(view, v, {})]
Prior(view, used)  == {ReportFrom(view, v, {}) : v \in used \cap Independent}
ByUsed(view, used) ==
    [v \in used |-> ReportFrom(view, v, IF v = Bureau THEN Prior(view, used) ELSE {})]

\* What Stage A collects: one report by each vendor used, with a mean.
LEMMA PriorReports ==
    ASSUME NEW view \in [Vendors -> Int], NEW used \in SUBSET Vendors
    PROVE  LET V == used \cap Independent IN
           /\ OneEach(V, StageA(view, used)) /\ IsFiniteSet(V)
           /\ Prior(view, used) = {StageA(view, used)[v] : v \in V}
           /\ Prior(view, used) = {} <=> V = {}
           /\ Prior(view, used) # {} => MeanScore(Prior(view, used)) \in Int
<1> DEFINE V == used \cap Independent
<1>1. IsFiniteSet(V)
  BY VendorsFinite
<1>2. ASSUME NEW v \in V PROVE ReportFrom(view, v, {}) \in ReportsOf(V)
  <2>1. deriveScore(view[v], {}) \in 0..100
    BY VendorsFinite, ScoreRange
  <2> QED
    BY <2>1, WeightsNat DEF ReportFrom, ReportsOf
<1>3. OneEach(V, StageA(view, used))
  BY <1>2 DEF OneEach, StageA, ReportFrom
<1>4. Prior(view, used) = {StageA(view, used)[v] : v \in V}
  BY DEF Prior, StageA
<1>5. Prior(view, used) = {} <=> V = {}
  BY DEF Prior
<1> HIDE DEF V
<1>6. Prior(view, used) # {} => MeanScore(Prior(view, used)) \in Int
  BY <1>1, <1>3, <1>4, <1>5, MeanOfScores
<1> QED
  BY <1>1, <1>3, <1>4, <1>5, <1>6 DEF V

\* The reports of a request: one by each vendor used, with a score on the scale.
LEMMA UsedReports ==
    ASSUME NEW view \in [Vendors -> Int], NEW used \in SUBSET Vendors
    PROVE  /\ OneEach(used, ByUsed(view, used)) /\ IsFiniteSet(used)
           /\ ReportsUnder(view, used) = {ByUsed(view, used)[v] : v \in used}
           /\ \A r \in ReportsUnder(view, used) : r.source \in used /\ r.score \in 0..100
           /\ Cardinality(ReportsUnder(view, used)) = Cardinality(used)
<1>1. ASSUME NEW v \in used
      PROVE  ByUsed(view, used)[v] \in ReportsOf(used) /\ ByUsed(view, used)[v].score \in 0..100
             /\ ByUsed(view, used)[v].source = v
  <2> DEFINE prior == IF v = Bureau THEN Prior(view, used) ELSE {}
  <2>1. prior # {} => MeanScore(prior) \in Int
    BY PriorReports
  <2> HIDE DEF prior
  <2>2. deriveScore(view[v], prior) \in 0..100
    BY <2>1, ScoreRange
  <2> QED
    BY <2>2, WeightsNat DEF ByUsed, ReportFrom, ReportsOf, prior
<1>2. OneEach(used, ByUsed(view, used))
  BY <1>1 DEF OneEach, ByUsed
<1>3. IsFiniteSet(used)
  BY VendorsFinite
<1>4. ReportsUnder(view, used) = {ByUsed(view, used)[v] : v \in used}
  <2>1. ReportsUnder(view, used) = Prior(view, used)
          \cup {ReportFrom(view, v, Prior(view, used)) : v \in used \cap {Bureau}}
    BY DEF ReportsUnder, Prior
  <2>2. Prior(view, used) = {ByUsed(view, used)[v] : v \in used \cap Independent}
    BY VendorsFinite DEF Prior, ByUsed
  <2>3. {ReportFrom(view, v, Prior(view, used)) : v \in used \cap {Bureau}}
          = {ByUsed(view, used)[v] : v \in used \cap {Bureau}}
    BY DEF ByUsed
  <2>4. used = (used \cap Independent) \cup (used \cap {Bureau})
    BY DEF Vendors
  <2> QED
    BY <2>1, <2>2, <2>3, <2>4
<1>5. Cardinality({ByUsed(view, used)[v] : v \in used}) = Cardinality(used)
  BY <1>2, <1>3, ByVendor
<1> QED
  BY <1>1, <1>2, <1>3, <1>4, <1>5

\* A worse view of the applicant never brings a more lenient decision.
LEMMA WorseView ==
    ASSUME NEW view \in [Vendors -> Int], NEW worse \in [Vendors -> Int],
           NEW used \in SUBSET Vendors, \A v \in used : view[v] <= worse[v]
    PROVE  Severity[decide(ReportsUnder(view, used))] <= Severity[decide(ReportsUnder(worse, used))]
<1> DEFINE V == used \cap Independent
           a == ByUsed(view, used)
           b == ByUsed(worse, used)
<1>1. \A v \in V : StageA(view, used)[v].score <= StageA(worse, used)[v].score
  <2>1. ASSUME NEW v \in V PROVE deriveScore(view[v], {}) <= deriveScore(worse[v], {})
    BY VendorsFinite, ScoreMonotonic
  <2> QED
    BY <2>1 DEF StageA, ReportFrom
<1>2. Prior(view, used) # {} => MeanScore(Prior(view, used)) <= MeanScore(Prior(worse, used))
  <2> HIDE DEF V
  <2> SUFFICES ASSUME Prior(view, used) # {}
               PROVE  MeanScore(Prior(view, used)) <= MeanScore(Prior(worse, used))
    OBVIOUS
  <2>1. /\ V # {} /\ IsFiniteSet(V)
        /\ OneEach(V, StageA(view, used)) /\ OneEach(V, StageA(worse, used))
        /\ Prior(view, used) = {StageA(view, used)[v] : v \in V}
        /\ Prior(worse, used) = {StageA(worse, used)[v] : v \in V}
    BY PriorReports DEF V
  <2> QED
    BY <1>1, <2>1, MeanMonotonic
<1>3. \A v \in used : a[v].weight = b[v].weight /\ a[v].confidence = b[v].confidence
  BY DEF ByUsed, ReportFrom
<1>4. ASSUME NEW v \in used PROVE a[v].score <= b[v].score
  <2>1. CASE v = Bureau
    <3>1. deriveScore(view[v], Prior(view, used)) <= deriveScore(worse[v], Prior(worse, used))
      BY <1>2, PriorReports, ScoreMonotonic
    <3> QED
      BY <2>1, <3>1 DEF ByUsed, ReportFrom
  <2>2. CASE v # Bureau
    <3>1. deriveScore(view[v], {}) <= deriveScore(worse[v], {})
      BY ScoreMonotonic
    <3> QED
      BY <2>2, <3>1 DEF ByUsed, ReportFrom
  <2> QED
    BY <2>1, <2>2
<1>5. /\ OneEach(used, a) /\ OneEach(used, b) /\ IsFiniteSet(used)
      /\ ReportsUnder(view, used) = {a[v] : v \in used}
      /\ ReportsUnder(worse, used) = {b[v] : v \in used}
  BY UsedReports
<1> HIDE DEF a, b
<1> QED
  BY <1>3, <1>4, <1>5, WorseIsNotMoreLenient

WeightsPositive   == \A v \in Vendors : Weight[v] > 0
ThresholdsOrdered == ApproveBelow < DeclineAbove

\* Scores are beyond a threshold when all opinions are.
LEMMA OpinionsBeyond ==
    ASSUME NEW view \in [Vendors -> Int], NEW used \in SUBSET Vendors, NEW t \in 0..100
    PROVE  LET a == ByUsed(view, used) IN
           /\ (\A v \in used : view[v] >= t) => \A v \in used : a[v].score >= t
           /\ (\A v \in used : view[v] <= t) => \A v \in used : a[v].score <= t
<1> DEFINE V == used \cap Independent
           prior == Prior(view, used)
<1>1. /\ (\A v \in used : view[v] >= t) => \A v \in V : StageA(view, used)[v].score >= t
      /\ (\A v \in used : view[v] <= t) => \A v \in V : StageA(view, used)[v].score <= t
  <2>1. ASSUME NEW v \in V
        PROVE  /\ view[v] >= t => deriveScore(view[v], {}) >= t
               /\ view[v] <= t => deriveScore(view[v], {}) <= t
    BY VendorsFinite, ScoreBeyond
  <2> QED
    BY <2>1 DEF StageA, ReportFrom
<1>2. prior # {} =>
        /\ (\A v \in used : view[v] >= t) => MeanScore(prior) >= t
        /\ (\A v \in used : view[v] <= t) => MeanScore(prior) <= t
  <2>1. /\ OneEach(V, StageA(view, used)) /\ IsFiniteSet(V)
        /\ prior = {StageA(view, used)[v] : v \in V} /\ (prior = {} <=> V = {})
    BY PriorReports
  <2> HIDE DEF V, prior
  <2> QED
    BY <1>1, <2>1, MeanOfScores
<1>3. prior # {} => MeanScore(prior) \in Int
  BY PriorReports
<1> HIDE DEF prior
<1>4. ASSUME NEW v \in used
      PROVE  /\ (\A w \in used : view[w] >= t) => ByUsed(view, used)[v].score >= t
             /\ (\A w \in used : view[w] <= t) => ByUsed(view, used)[v].score <= t
  <2>1. CASE v = Bureau
    <3>1. /\ (\A w \in used : view[w] >= t) => deriveScore(view[v], prior) >= t
          /\ (\A w \in used : view[w] <= t) => deriveScore(view[v], prior) <= t
      BY <1>2, <1>3, ScoreBeyond
    <3> QED
      BY <2>1, <3>1 DEF ByUsed, ReportFrom, prior
  <2>2. CASE v # Bureau
    <3>1. /\ view[v] >= t => deriveScore(view[v], {}) >= t
          /\ view[v] <= t => deriveScore(view[v], {}) <= t
      BY ScoreBeyond
    <3> QED
      BY <2>2, <3>1 DEF ByUsed, ReportFrom
  <2> QED
    BY <2>1, <2>2
<1> QED
  BY <1>4

\* Opinions that agree are followed.
LEMMA Agreement ==
    ASSUME WeightsPositive, ThresholdsOrdered,
           NEW view \in [Vendors -> Int], NEW used \in SUBSET Vendors,
           Covered(ReportsUnder(view, used))
    PROVE  LET decision == decide(ReportsUnder(view, used)) IN
           /\ (\A v \in used : view[v] >= DeclineAbove) => decision = "DECLINE"
           /\ (\A v \in used : view[v] <= ApproveBelow) => decision = "APPROVE"
<1> DEFINE a == ByUsed(view, used)
<1>1. /\ OneEach(used, a) /\ IsFiniteSet(used)
      /\ ReportsUnder(view, used) = {a[v] : v \in used}
  BY UsedReports
<1>2. used # {}
  BY <1>1 DEF Covered
<1>3. \A v \in used : a[v].weight > 0
  BY DEF WeightsPositive, ByUsed, ReportFrom
<1>4. DeclineAbove \in 0..100 /\ ApproveBelow \in 0..100
  BY ThresholdsAssumption
<1>5. /\ (\A v \in used : view[v] >= DeclineAbove) => \A v \in used : a[v].score >= DeclineAbove
      /\ (\A v \in used : view[v] <= ApproveBelow) => \A v \in used : a[v].score <= ApproveBelow
  BY <1>4, OpinionsBeyond
<1> HIDE DEF a
<1> QED
  BY <1>1, <1>2, <1>3, <1>5, AgreementDecides DEF ThresholdsOrdered
-----------------------------------------------------------------------------
(* The invariant holds initially.                                          *)

\* What the invariant says of the data a report is made from.
LEMMA Collecting ==
    ASSUME IInv
    PROVE  /\ opinion \in [Vendors -> Int]
           /\ Sources(collected) \in SUBSET Vendors
           /\ results \in Seq([source : Independent, ok : BOOLEAN])
           /\ collected = ReportsUnder(opinion, Sources(collected))
  BY ReportsAssumption DEF IInv, TypeOK, Sources, Collected

\* A request starts with the invariant.
LEMMA InitInvariant == Init => IInv
<1> SUFFICES ASSUME Init PROVE IInv
  OBVIOUS
<1> USE DEF Init
<1>1. Sources(collected) = {}
  BY DEF Sources
<1>2. TypeOK
  <2>1. received \in 0..Cardinality(Independent)
    BY VendorsFinite
  <2>2. done \subseteq Contexts
    OBVIOUS
  <2>3. results \in Seq([source : Independent, ok : BOOLEAN])
    OBVIOUS
  <2>4. result \in [signals : SUBSET Vendors, decision : Verdict \cup {"none"}]
    BY DEF NoResult
  <2>5. ev \in [evidence : SUBSET Vendors, torn : BOOLEAN]
    BY DEF NoEvent
  <2> QED
    BY <2>1, <2>2, <2>3, <2>4, <2>5 DEF TypeOK
<1>3. Goroutines /\ Channel /\ BureauAsked /\ Decided /\ EvidenceCoversDecision
  BY DEF Goroutines, Channel, BureauAsked, Decided, EvidenceCoversDecision
<1>4. Counted
  <2>1. Exited = {}
    BY DEF Exited
  <2> QED
    BY <2>1, VendorsFinite, FS_EmptySet DEF Counted
<1>5. Collected
  <2>1. ReportsUnder(opinion, {}) = {}
    BY DEF ReportsUnder
  <2> QED
    BY <1>1, <2>1 DEF Collected
<1> QED
  BY <1>2, <1>3, <1>4, <1>5 DEF IInv

-----------------------------------------------------------------------------
(* Every step preserves it.                                                *)

\* Timers and callers end contexts and change nothing else.
LEMMA ContextsStep ==
    IInv /\ (RequestEnds \/ BudgetExpires \/ StageABudgetExpires \/ Finished) => IInv'
<1> SUFFICES ASSUME IInv, RequestEnds \/ BudgetExpires \/ StageABudgetExpires \/ Finished
             PROVE  IInv'
  OBVIOUS
<1>1. /\ UNCHANGED <<pc, g, ok, results, received, collected, providers, opinion,
                     result, ev, queue>>
      /\ done' \subseteq Contexts
  BY DEF IInv, TypeOK, RequestEnds, BudgetExpires, StageABudgetExpires, Finished, vars, Contexts
<1>2. TypeOK'
  BY <1>1 DEF IInv, TypeOK
<1> QED
  BY <1>1, <1>2 DEF IInv, Goroutines, Channel, Counted, Exited, Collected, BureauAsked, Decided, EvidenceCoversDecision

\* A step of a goroutine that sends nothing changes no count.
LEMMA GoroutineStep ==
    ASSUME IInv, NEW v \in Independent,
           FetchSucceeds(v) \/ FetchFails(v) \/ Lock(v) \/ AppendAndUnlock(v)
    PROVE  IInv'
<1> USE DEF FetchSucceeds, FetchFails, Lock, AppendAndUnlock
<1>1. /\ UNCHANGED <<pc, results, received, collected, done, opinion, result, ev, queue>>
      /\ ok \subseteq ok' /\ providers \subseteq providers'
      /\ ok' \subseteq ok \cup {v}
      /\ \A w \in Independent \ {v} : g'[w] = g[w]
      /\ g[v] # "exited" /\ g'[v] # "exited"
  BY DEF IInv, TypeOK
<1>2. TypeOK'
  BY <1>1, VendorsFinite DEF IInv, TypeOK
<1>3. Goroutines'
  BY <1>1 DEF IInv, TypeOK, Goroutines
<1>4. Channel' /\ Decided' /\ EvidenceCoversDecision'
  BY <1>1 DEF IInv, Channel, Decided, EvidenceCoversDecision
<1>5. Counted'
  <2>1. Exited' = Exited
    BY <1>1 DEF Exited
  <2> QED
    BY <1>1, <2>1 DEF IInv, Counted
<1>6. Collected'
  BY <1>1 DEF IInv, Collected
<1>7. BureauAsked'
  BY <1>1, VendorsFinite DEF IInv, BureauAsked
<1> QED
  BY <1>2, <1>3, <1>4, <1>5, <1>6, <1>7 DEF IInv

\* A goroutine sends its resolution and exits.
LEMMA SendStep ==
    ASSUME IInv, NEW v \in Independent, Send(v)
    PROVE  IInv'
<1> DEFINE r == [source |-> v, ok |-> g[v] = "sendingReport"]
<1>1. /\ UNCHANGED <<pc, ok, received, collected, providers, done, opinion, result, ev, queue>>
      /\ results' = Append(results, r)
      /\ g' = [g EXCEPT ![v] = "exited"]
      /\ g[v] \in {"sendingReport", "sendingFailure"}
  BY DEF Send
<1>2. /\ results \in Seq([source : Independent, ok : BOOLEAN])
      /\ r \in [source : Independent, ok : BOOLEAN]
      /\ g \in [Independent -> {"fetching", "observing", "appending",
                                "sendingReport", "sendingFailure", "exited"}]
  BY DEF IInv, TypeOK
<1>3. /\ results' \in Seq([source : Independent, ok : BOOLEAN])
      /\ Len(results') = Len(results) + 1
      /\ \A i \in 1..Len(results) : results'[i] = results[i]
      /\ results'[Len(results) + 1] = r
      /\ Len(results) \in Nat
  <2> HIDE DEF r
  <2> QED
    BY <1>1, <1>2
<1>4. TypeOK'
  <2>1. g' \in [Independent -> {"fetching", "observing", "appending",
                               "sendingReport", "sendingFailure", "exited"}]
    BY <1>1, <1>2
  <2> QED
    BY <1>1, <1>3, <2>1 DEF IInv, TypeOK
<1>5. /\ \A w \in Independent \ {v} : g'[w] = g[w]
      /\ g'[v] = "exited"
  BY <1>1, <1>2
<1>6. Goroutines'
  <2> SUFFICES ASSUME NEW w \in Independent
               PROVE  /\ g'[w] \in {"observing", "appending", "sendingReport"} => w \in ok
                      /\ g'[w] \in {"fetching", "sendingFailure"} => w \notin ok
                      /\ g'[w] = "sendingReport" => w \in providers
                      /\ g'[w] = "exited" /\ w \in ok =>
                           \/ w \in Sources(collected)
                           \/ \E i \in 1..Len(results') : results'[i] = [source |-> w, ok |-> TRUE]
    BY <1>1 DEF Goroutines, Sources
  <2>1. CASE w = v
    <3>1. v \in ok => g[v] = "sendingReport"
      BY <1>1 DEF IInv, Goroutines
    <3>2. v \in ok => results'[Len(results) + 1] = [source |-> v, ok |-> TRUE]
      BY <1>3, <3>1
    <3>3. Len(results) + 1 \in 1..Len(results')
      BY <1>3
    <3> QED
      BY <1>5, <2>1, <3>2, <3>3
  <2>2. CASE w # v
    <3>1. ASSUME NEW i \in 1..Len(results) PROVE i \in 1..Len(results') /\ results'[i] = results[i]
      BY <1>3
    <3>2. g'[w] = g[w]
      BY <1>5, <2>2
    <3> QED
      BY <3>1, <3>2 DEF IInv, Goroutines
  <2> QED
    BY <2>1, <2>2
<1>7. Channel'
  <2>1. ASSUME NEW i \in 1..Len(results'), results'[i].ok
        PROVE  results'[i].source \in ok \cap providers
    <3>1. CASE i \in 1..Len(results)
      BY <1>3, <2>1, <3>1 DEF IInv, Channel
    <3>2. CASE i = Len(results) + 1
      BY <1>3, <2>1, <3>2 DEF IInv, Goroutines
    <3> QED
      BY <1>3, <3>1, <3>2
  <2> QED
    BY <1>1, <2>1 DEF Channel
<1>8. Counted'
  <2>1. Exited' = Exited \cup {v} /\ v \notin Exited
    BY <1>1, <1>5 DEF Exited
  <2>2. IsFiniteSet(Exited)
    BY VendorsFinite, FS_Subset DEF Exited
  <2>3. Cardinality(Exited') = Cardinality(Exited) + 1
    BY <2>1, <2>2, FS_AddElement
  <2>4. received \in Nat
    BY VendorsFinite DEF IInv, TypeOK
  <2> QED
    BY <1>1, <1>3, <2>3, <2>4 DEF IInv, Counted
<1>9. Collected' /\ BureauAsked' /\ Decided' /\ EvidenceCoversDecision'
  BY <1>1 DEF IInv, Collected, BureauAsked, Decided, EvidenceCoversDecision
<1> QED
  BY <1>4, <1>6, <1>7, <1>8, <1>9 DEF IInv

\* The reports of independent vendors, and those with the bureau's added.
LEMMA ReportsGrow ==
    ASSUME NEW view, NEW used \in SUBSET Independent
    PROVE  /\ ReportsUnder(view, used) = {ReportFrom(view, v, {}) : v \in used}
           /\ \A v \in Independent :
                ReportsUnder(view, used \cup {v}) = ReportsUnder(view, used) \cup {ReportFrom(view, v, {})}
           /\ LET prior == ReportsUnder(view, used) IN
              ReportsUnder(view, used \cup {Bureau}) = prior \cup {ReportFrom(view, Bureau, prior)}
<1>1. ASSUME NEW U \in SUBSET Independent
      PROVE  ReportsUnder(view, U) = {ReportFrom(view, v, {}) : v \in U}
  <2>1. U \cap Independent = U /\ U \cap {Bureau} = {}
    BY VendorsFinite
  <2> QED
    BY <2>1 DEF ReportsUnder
<1>2. ASSUME NEW v \in Independent
      PROVE  ReportsUnder(view, used \cup {v}) = ReportsUnder(view, used) \cup {ReportFrom(view, v, {})}
  <2>1. used \cup {v} \in SUBSET Independent
    OBVIOUS
  <2>2. ReportsUnder(view, used \cup {v}) = {ReportFrom(view, w, {}) : w \in used \cup {v}}
    BY <1>1, <2>1
  <2> QED
    BY <1>1, <2>2
<1>3. (used \cup {Bureau}) \cap Independent = used /\ (used \cup {Bureau}) \cap {Bureau} = {Bureau}
  BY VendorsFinite
<1>4. LET prior == ReportsUnder(view, used) IN
      ReportsUnder(view, used \cup {Bureau}) = prior \cup {ReportFrom(view, Bureau, prior)}
  <2>1. ReportsUnder(view, used \cup {Bureau})
          = LET prior == {ReportFrom(view, v, {}) : v \in used}
            IN  prior \cup {ReportFrom(view, v, prior) : v \in {Bureau}}
    BY <1>3 DEF ReportsUnder
  <2> QED
    BY <1>1, <2>1
<1> QED
  BY <1>1, <1>2, <1>4

\* The fan-in takes a resolution.
LEMMA ReceiveStep == IInv /\ Receive => IInv'
<1> SUFFICES ASSUME IInv, Receive PROVE IInv'
  OBVIOUS
<1> DEFINE r == Head(results)
           S == Sources(collected)
<1>1. /\ UNCHANGED <<g, ok, providers, opinion, result, ev, queue>>
      /\ pc = "stageA" /\ results # <<>>
      /\ collected' = IF r.ok THEN collected \cup {ReportFrom(opinion, r.source, {})} ELSE collected
      /\ results' = Tail(results)
      /\ received' = received + 1
      /\ \/ received' = Cardinality(Independent) /\ pc' \in {"stageB", "decide"}
         \/ received' # Cardinality(Independent) /\ pc' = pc
      /\ done' \subseteq done \cup {"stageA"}
  BY DEF Receive, LeaveStageA, Report
<1>2. /\ results \in Seq([source : Independent, ok : BOOLEAN])
      /\ received \in Nat /\ received < Cardinality(Independent)
      /\ Cardinality(Independent) \in Nat
      /\ opinion \in [Vendors -> Int]
      /\ S \in SUBSET Independent /\ collected = ReportsUnder(opinion, S)
  <2>1. Bureau \notin S
    BY <1>1 DEF IInv, Collected
  <2> QED
    BY <1>1, <2>1, Collecting, VendorsFinite DEF IInv, TypeOK, Counted, Vendors
<1>3. /\ results' \in Seq([source : Independent, ok : BOOLEAN])
      /\ Len(results) \in Nat \ {0} /\ Len(results') = Len(results) - 1
      /\ \A i \in 1..Len(results') : i + 1 \in 1..Len(results) /\ results'[i] = results[i + 1]
      /\ \A i \in 2..Len(results) : i - 1 \in 1..Len(results') /\ results'[i - 1] = results[i]
      /\ r = results[1] /\ 1 \in 1..Len(results)
      /\ r.source \in Independent
  <2> DEFINE Resolution == [source : Independent, ok : BOOLEAN]
  <2>1. results \in Seq(Resolution) /\ results # <<>> /\ results' = Tail(results)
    BY <1>1, <1>2
  <2>2. results[1] \in Resolution
    <3> HIDE DEF Resolution
    <3> QED
      BY <2>1
  <2>3. /\ results' \in Seq(Resolution)
        /\ Len(results) \in Nat \ {0} /\ Len(results') = Len(results) - 1
        /\ \A i \in 1..Len(results') : results'[i] = results[i + 1]
        /\ r = results[1]
    <3> HIDE DEF Resolution
    <3> QED
      BY <2>1
  <2>4. results[1].source \in Independent
    BY <2>2
  <2>5. /\ \A i \in 1..Len(results') : i + 1 \in 1..Len(results)
        /\ \A i \in 2..Len(results) : i - 1 \in 1..Len(results') /\ results'[i - 1] = results[i]
        /\ 1 \in 1..Len(results)
    BY <2>3
  <2> QED
    BY <2>3, <2>4, <2>5
<1> DEFINE T == IF r.ok THEN S \cup {r.source} ELSE S
<1>4. /\ T \in SUBSET Independent /\ S \subseteq T
      /\ collected' = ReportsUnder(opinion, T)
  <2> HIDE DEF S, r
  <2> QED
    BY <1>1, <1>2, <1>3, ReportsGrow
<1>5. Sources(collected') = T
  <2>1. ReportFrom(opinion, r.source, {}).source = r.source
    BY DEF ReportFrom
  <2> QED
    BY <1>1, <2>1 DEF Sources
<1>6. T \subseteq ok \cap providers
  <2>1. r.ok => r.source \in ok \cap providers
    BY <1>3 DEF IInv, Channel
  <2> QED
    BY <2>1 DEF IInv, Collected
<1>7. TypeOK'
  <2>1. T \in SUBSET Vendors
    BY <1>4, VendorsFinite
  <2>2. \A p \in collected' : p.source \in Vendors /\ p.score \in 0..100
    <3> HIDE DEF T
    <3> QED
      BY <1>2, <1>4, <2>1, UsedReports
  <2>3. received' \in 0..Cardinality(Independent)
    BY <1>1, <1>2
  <2>4. done' \subseteq Contexts
    BY <1>1 DEF IInv, TypeOK, Contexts
  <2> HIDE DEF T, S, r
  <2> QED
    BY <1>1, <1>3, <2>2, <2>3, <2>4 DEF IInv, TypeOK
<1>8. Goroutines'
  <2> SUFFICES ASSUME NEW v \in Independent, g[v] = "exited", v \in ok,
                      v \notin T
               PROVE  \E i \in 1..Len(results') : results'[i] = [source |-> v, ok |-> TRUE]
    BY <1>1, <1>5 DEF IInv, Goroutines
  <2>1. PICK i \in 1..Len(results) : results[i] = [source |-> v, ok |-> TRUE]
    BY DEF IInv, Goroutines
  <2>2. i # 1
    BY <1>3, <2>1
  <2> QED
    BY <1>3, <2>1, <2>2
<1>9. Channel'
  BY <1>1, <1>3 DEF IInv, Channel
<1>10. Counted'
  <2>1. Exited' = Exited
    BY <1>1 DEF Exited
  <2> QED
    BY <1>1, <1>2, <1>3, <2>1 DEF IInv, Counted
<1>11. Collected'
  <2> HIDE DEF T, S, r
  <2> QED
    BY <1>1, <1>4, <1>5, <1>6, VendorsFinite DEF Collected
<1>12. BureauAsked' /\ Decided' /\ EvidenceCoversDecision'
  BY <1>1 DEF IInv, BureauAsked, Decided, EvidenceCoversDecision
<1> QED
  BY <1>7, <1>8, <1>9, <1>10, <1>11, <1>12 DEF IInv

\* The request's goroutine moves on without collecting anything.
LEMMA MoveOnStep ==
    IInv /\ (StopWaiting \/ BureauSucceeds \/ BureauFails \/ LockForBureau) => IInv'
<1> SUFFICES ASSUME IInv, StopWaiting \/ BureauSucceeds \/ BureauFails \/ LockForBureau
             PROVE  IInv'
  OBVIOUS
<1>1. /\ UNCHANGED <<g, results, received, collected, providers, opinion, result, ev, queue>>
      /\ ok' \in {ok, ok \cup {Bureau}} /\ done' \subseteq done \cup {"stageA"}
      /\ \/ pc = "stageA" /\ pc' \in {"stageB", "decide"} /\ ok' = ok
         \/ pc = "stageB" /\ pc' = "observing" /\ Bureau \in ok'
         \/ pc = "stageB" /\ pc' = "decide" /\ ok' = ok
         \/ pc = "observing" /\ pc' = "appending" /\ ok' = ok
  BY DEF StopWaiting, LeaveStageA, BureauSucceeds, BureauFails, LockForBureau
<1>2. TypeOK'
  BY <1>1, VendorsFinite DEF IInv, TypeOK, Contexts
<1>3. Goroutines' /\ Channel' /\ Collected'
  BY <1>1, VendorsFinite DEF IInv, Goroutines, Channel, Collected
<1>4. Counted'
  BY <1>1 DEF IInv, Counted, Exited
<1>5. BureauAsked' /\ Decided' /\ EvidenceCoversDecision'
  BY <1>1 DEF IInv, BureauAsked, Decided, EvidenceCoversDecision
<1> QED
  BY <1>2, <1>3, <1>4, <1>5 DEF IInv

\* The bureau's report joins those it was made from.
LEMMA BureauStep == IInv /\ CollectBureau => IInv'
<1> SUFFICES ASSUME IInv, CollectBureau PROVE IInv'
  OBVIOUS
<1> DEFINE S == Sources(collected)
<1>1. /\ UNCHANGED <<g, ok, results, received, done, opinion, result, ev, queue>>
      /\ pc = "appending" /\ pc' = "decide"
      /\ providers' = providers \cup {Bureau}
      /\ collected' = collected \cup {ReportFrom(opinion, Bureau, collected)}
  BY DEF CollectBureau, Report
<1>2. /\ S \in SUBSET Independent /\ S \subseteq ok \cap providers /\ Bureau \in ok
      /\ collected = ReportsUnder(opinion, S) /\ opinion \in [Vendors -> Int]
  <2>1. Bureau \notin S /\ Bureau \in ok /\ S \subseteq ok \cap providers
    BY <1>1 DEF IInv, Collected, BureauAsked
  <2> QED
    BY <2>1, Collecting DEF Vendors
<1>3. collected' = ReportsUnder(opinion, S \cup {Bureau})
  <2> HIDE DEF S
  <2> QED
    BY <1>1, <1>2, ReportsGrow
<1>4. Sources(collected') = S \cup {Bureau}
  <2>1. ReportFrom(opinion, Bureau, collected).source = Bureau
    BY DEF ReportFrom
  <2> QED
    BY <1>1, <2>1 DEF Sources
<1>5. TypeOK'
  <2>1. S \cup {Bureau} \in SUBSET Vendors
    BY <1>2 DEF Vendors
  <2>2. \A p \in collected' : p.source \in Vendors /\ p.score \in 0..100
    <3> HIDE DEF S
    <3> QED
      BY <1>2, <1>3, <2>1, UsedReports
  <2> QED
    BY <1>1, <2>2, VendorsFinite DEF IInv, TypeOK
<1>6. Goroutines' /\ Channel'
  BY <1>1, <1>4 DEF IInv, Goroutines, Channel
<1>7. Counted'
  BY <1>1 DEF IInv, Counted, Exited
<1>8. Collected'
  <2> HIDE DEF S
  <2> QED
    BY <1>1, <1>2, <1>3, <1>4 DEF Collected
<1>9. BureauAsked' /\ Decided' /\ EvidenceCoversDecision'
  BY <1>1 DEF IInv, BureauAsked, Decided, EvidenceCoversDecision
<1> QED
  BY <1>5, <1>6, <1>7, <1>8, <1>9 DEF IInv

\* The decision, the event and its publication.
LEMMA AnswerStep == IInv /\ (Decide \/ BuildEvent \/ Publish) => IInv'
<1> SUFFICES ASSUME IInv, Decide \/ BuildEvent \/ Publish PROVE IInv'
  OBVIOUS
<1>1. /\ UNCHANGED <<g, ok, results, received, collected, providers, opinion>>
      /\ pc' \in {"event", "publish", "returned"}
      /\ done' \subseteq done \cup {"outer", "stageA"}
  BY DEF Decide, BuildEvent, Publish
<1>2. Decided' /\ result' \in [signals : SUBSET Vendors, decision : Verdict \cup {"none"}]
  <2>1. Sources(collected) \in SUBSET Vendors /\ decide(collected) \in Verdict
    BY Collecting DEF decide, Verdict
  <2>2. result' = [signals |-> Sources(collected), decision |-> decide(collected)]
    BY DEF Decide, BuildEvent, Publish, IInv, Decided
  <2> QED
    BY <1>1, <2>1, <2>2 DEF Decided
<1>3. ev' \in [evidence : SUBSET Vendors, torn : BOOLEAN] /\ EvidenceCoversDecision'
  <2>1. CASE Decide
    BY <2>1 DEF Decide, IInv, TypeOK, EvidenceCoversDecision
  <2>2. CASE BuildEvent
    <3>1. PICK seen \in SUBSET providers, torn \in BOOLEAN :
            /\ providers \cap Sources(collected) \subseteq seen
            /\ ev' = [evidence |-> seen, torn |-> torn]
      BY <2>2 DEF BuildEvent
    <3>2. result'.signals = Sources(collected) /\ Sources(collected) \subseteq providers
          /\ providers \subseteq Vendors
      BY <2>2 DEF BuildEvent, IInv, TypeOK, Decided, Collected
    <3> QED
      BY <3>1, <3>2 DEF EvidenceCoversDecision
  <2>3. CASE Publish
    BY <2>3 DEF Publish, IInv, TypeOK, EvidenceCoversDecision
  <2> QED
    BY <2>1, <2>2, <2>3
<1>4. TypeOK'
  <2>1. queue' \in BOOLEAN
    BY DEF Decide, BuildEvent, Publish, IInv, TypeOK
  <2> QED
    BY <1>1, <1>2, <1>3, <2>1 DEF IInv, TypeOK, Contexts
<1>5. Goroutines' /\ Channel' /\ Collected' /\ BureauAsked'
  BY <1>1 DEF IInv, Goroutines, Channel, Collected, BureauAsked
<1>6. Counted'
  BY <1>1 DEF IInv, Counted, Exited
<1> QED
  BY <1>2, <1>3, <1>4, <1>5, <1>6 DEF IInv

\* Every step of any goroutine preserves the invariant.
LEMMA StepInvariant == IInv /\ [Next]_vars => IInv'
<1> SUFFICES ASSUME IInv, [Next]_vars PROVE IInv'
  OBVIOUS
<1>1. CASE RequestEnds \/ BudgetExpires \/ StageABudgetExpires \/ Finished
  BY <1>1, ContextsStep
<1>2. ASSUME NEW v \in Independent, Goroutine(v) PROVE IInv'
  BY <1>2, GoroutineStep, SendStep DEF Goroutine
<1>3. CASE Request
  BY <1>3, ReceiveStep, MoveOnStep, BureauStep, AnswerStep DEF Request
<1>4. CASE UNCHANGED vars
  BY <1>4 DEF vars, IInv, TypeOK, Goroutines, Channel, Counted, Exited, Collected,
              BureauAsked, Decided, EvidenceCoversDecision
<1> QED
  BY <1>1, <1>2, <1>3, <1>4 DEF Next

\* The invariant of every reachable state.
LEMMA Invariant == Spec => []IInv
<1> QED
  BY InitInvariant, StepInvariant, PTL DEF Spec

-----------------------------------------------------------------------------
(* Theorems.                                                               *)

\* Every variable of a request keeps its type and every score collected stays
\* between 0 and 100 (simulated.go:100-107).
THEOREM TypeCorrect == Spec => []TypeOK
  BY Invariant, PTL DEF IInv

\* When the fan-in has taken one resolution per vendor nothing is left of
\* Stage A: every goroutine has exited, the channel is empty and exactly the
\* vendors that answered were collected (scorer.go:86-110).
THEOREM CompletionIsExact == Spec => []CompletionExact
<1>1. IInv => CompletionExact
  <2> SUFFICES ASSUME IInv, received = Cardinality(Independent) PROVE CompletionExact
    BY DEF CompletionExact
  <2>1. Exited \subseteq Independent /\ IsFiniteSet(Independent) /\ IsFiniteSet(Exited)
    BY VendorsFinite, FS_Subset, VendorsAssumption DEF Exited
  <2>2. /\ results \in Seq([source : Independent, ok : BOOLEAN])
        /\ Cardinality(Exited) <= Cardinality(Independent)
    BY <2>1, FS_Subset DEF IInv, TypeOK
  <2>3. Len(results) = 0 /\ Cardinality(Exited) = Cardinality(Independent)
    <3>1. Len(results) \in Nat
      BY <2>2
    <3> QED
      BY <2>2, <3>1, VendorsFinite DEF IInv, Counted
  <2>4. Exited = Independent
    BY <2>1, <2>3, FS_Subset
  <2>5. results = <<>>
    <3> DEFINE Resolution == [source : Independent, ok : BOOLEAN]
    <3>1. results \in Seq(Resolution)
      BY <2>2
    <3> HIDE DEF Resolution
    <3> QED
      BY <2>3, <3>1
  <2>6. \A v \in Independent : g[v] = "exited"
    BY <2>4 DEF Exited
  <2>7. ok \cap Independent = Sources(collected) \cap Independent
    BY <2>3, <2>6 DEF IInv, Goroutines, Collected
  <2> QED
    BY <2>5, <2>6, <2>7 DEF CompletionExact
<1> QED
  BY <1>1, Invariant, PTL

\* Stage A never waits for a resolution that will not come: while it waits,
\* the channel holds one or a goroutine has still to send its own
\* (scorer.go:96-125).
THEOREM NeverWaitsInVain == Spec => []WaitsForSomeone
<1>1. IInv => WaitsForSomeone
  <2> SUFFICES ASSUME IInv, pc = "stageA", results = <<>>, \A v \in Independent : g[v] = "exited"
               PROVE  FALSE
    BY DEF WaitsForSomeone
  <2>1. Exited = Independent
    BY DEF Exited
  <2>2. Len(results) = 0
    OBVIOUS
  <2>3. received \in Nat /\ Cardinality(Independent) \in Nat
    BY VendorsFinite DEF IInv, TypeOK
  <2> QED
    BY <2>1, <2>2, <2>3 DEF IInv, Counted
<1> QED
  BY <1>1, Invariant, PTL

SendsWithoutWaiting ==
    \A v \in Independent : g[v] \in {"sendingReport", "sendingFailure"} => Len(results) < Capacity

\* A goroutine that has its report or its error never waits for room in the
\* channel, whether or not anyone reads it any more: the buffer holds every
\* resolution there can be (scorer.go:86-92, "no goroutine leaks").
THEOREM BufferIsLargeEnough == Spec => []SendsWithoutWaiting
<1>1. IInv => SendsWithoutWaiting
  <2> SUFFICES ASSUME IInv, NEW v \in Independent, g[v] \in {"sendingReport", "sendingFailure"}
               PROVE  Len(results) < Cardinality(Independent)
    BY DEF SendsWithoutWaiting, Capacity
  <2>1. Exited \subseteq Independent \ {v}
    BY DEF Exited
  <2>2. /\ IsFiniteSet(Independent \ {v})
        /\ Cardinality(Independent \ {v}) = Cardinality(Independent) - 1
    BY VendorsAssumption, FS_RemoveElement
  <2>3. Cardinality(Exited) <= Cardinality(Independent) - 1
    BY <2>1, <2>2, FS_Subset
  <2>4. received \in Nat /\ Len(results) \in Nat
    BY VendorsFinite DEF IInv, TypeOK
  <2> QED
    BY <2>3, <2>4, VendorsFinite DEF IInv, Counted
<1> QED
  BY <1>1, Invariant, PTL

\* The published event carries the evidence of every signal its decision used
\* (scoring.go:61-77 and 94).
THEOREM EvidenceIsComplete == Spec => []EvidenceCoversDecision
  BY Invariant, PTL DEF IInv

\* When a decision has been made it was made from the reports of the vendors
\* it names.
LEMMA DecisionMade ==
    IInv /\ pc = "event" =>
        /\ opinion \in [Vendors -> Opinions] /\ opinion \in [Vendors -> Int]
        /\ result.signals \in SUBSET Vendors
        /\ collected = ReportsUnder(opinion, result.signals)
        /\ result.decision = decide(ReportsUnder(opinion, result.signals))
<1> SUFFICES ASSUME IInv, pc = "event"
             PROVE  /\ opinion \in [Vendors -> Opinions] /\ opinion \in [Vendors -> Int]
                    /\ result.signals \in SUBSET Vendors
                    /\ collected = ReportsUnder(opinion, result.signals)
                    /\ result.decision = decide(ReportsUnder(opinion, result.signals))
  OBVIOUS
<1>1. result.signals = Sources(collected) /\ result.decision = decide(collected)
  BY DEF IInv, Decided
<1> QED
  BY <1>1, Collecting DEF IInv, TypeOK

\* A worse opinion of any vendor used, everything else equal, would not have
\* brought a more lenient decision (pipeline.go:64-106, simulated.go:100-107).
THEOREM DecisionIsMonotonic == Spec => []NeverMoreLenient
<1>1. IInv => NeverMoreLenient
  <2> SUFFICES ASSUME IInv, pc = "event",
                      NEW v \in result.signals, NEW o \in Opinions, o > opinion[v]
               PROVE  Severity[result.decision]
                        <= Severity[decide(ReportsUnder([opinion EXCEPT ![v] = o], result.signals))]
    BY DEF NeverMoreLenient
  <2> DEFINE worse == [opinion EXCEPT ![v] = o]
  <2>1. /\ opinion \in [Vendors -> Int] /\ result.signals \in SUBSET Vendors
        /\ result.decision = decide(ReportsUnder(opinion, result.signals))
    BY DecisionMade
  <2>2. worse \in [Vendors -> Int] /\ \A w \in result.signals : opinion[w] <= worse[w]
    BY <2>1, ReportsAssumption
  <2> HIDE DEF worse
  <2>3. Severity[decide(ReportsUnder(opinion, result.signals))]
          <= Severity[decide(ReportsUnder(worse, result.signals))]
    BY <2>1, <2>2, WorseView
  <2> QED
    BY <2>1, <2>3 DEF worse
<1> QED
  BY <1>1, Invariant, PTL

\* Vendors that agree are followed, if every vendor has some weight and the
\* two thresholds are in order: with no weight at all the score is zero and
\* approves whatever the vendors think, and with the thresholds in reverse
\* order one score is beyond both (pipeline.go:76-104).
THEOREM UnanimityIsFollowed ==
    ASSUME WeightsPositive, ThresholdsOrdered
    PROVE  Spec => []UnanimityDecides
<1>1. IInv => UnanimityDecides
  <2> SUFFICES ASSUME IInv, pc = "event", Covered(collected)
               PROVE  /\ (\A v \in result.signals : opinion[v] >= DeclineAbove) => result.decision = "DECLINE"
                      /\ (\A v \in result.signals : opinion[v] <= ApproveBelow) => result.decision = "APPROVE"
    BY DEF UnanimityDecides
  <2> QED
    BY DecisionMade, Agreement
<1> QED
  BY <1>1, Invariant, PTL

-----------------------------------------------------------------------------
(* A request keeps the contract of ScoreContract.                          *)

\* A request starts without an answer.
LEMMA ContractInit == Init => Contract!Init
  BY DEF Init, Contract!Init

\* Taking a report is a vendor's answer, and deciding is the reply; every other
\* step changes nothing the contract is about.
LEMMA ContractStep == IInv /\ [Next]_vars => [Contract!Next]_(Contract!vars)
<1> SUFFICES ASSUME IInv, [Next]_vars PROVE Contract!Next \/ UNCHANGED Contract!vars
  OBVIOUS
<1> USE DEF Contract!Next, Contract!vars
<1>1. ASSUME NEW v \in Vendors, v \notin ok, ok' = ok \cup {v}, UNCHANGED result
      PROVE  Contract!Next
  BY <1>1 DEF Contract!VendorAnswers
<1>2. ASSUME NEW v \in Independent, FetchSucceeds(v) PROVE Contract!Next
  <2>1. v \notin ok /\ v \in Vendors
    BY <1>2, VendorsFinite DEF IInv, Goroutines, FetchSucceeds
  <2> QED
    BY <1>1, <1>2, <2>1 DEF FetchSucceeds
<1>3. CASE BureauSucceeds
  <2>1. Bureau \notin ok /\ Bureau \in Vendors
    BY <1>3, VendorsFinite DEF IInv, BureauAsked, BureauSucceeds
  <2> QED
    BY <1>1, <1>3, <2>1 DEF BureauSucceeds
<1>4. CASE Decide
  <2> DEFINE S == Sources(collected)
  <2>1. /\ result = NoResult /\ UNCHANGED ok
        /\ result' = [signals |-> S, decision |-> decide(collected)]
        /\ S \subseteq ok /\ decide(collected) \in Verdict
    BY <1>4 DEF IInv, Decided, Decide, Collected, decide, Verdict
  <2>2. Cardinality(collected) = Cardinality(S) /\ (S = {} <=> collected = {})
    <3>1. Cardinality(ReportsUnder(opinion, S)) = Cardinality(S)
      BY Collecting, UsedReports
    <3> QED
      BY <3>1, Collecting DEF Sources
  <2>3. S = {} \/ Cardinality(S) < MinSignals => decide(collected) = "MANUAL_REVIEW"
    <3>1. Cardinality(S) \in Nat
      BY Collecting, VendorsFinite, FS_CardinalityType
    <3> QED
      BY <2>2, <3>1, CoverageAssumption DEF decide, Covered
  <2> HIDE DEF S
  <2>4. \E used \in SUBSET ok, d \in Verdict :
          /\ used = {} \/ Cardinality(used) < MinSignals => d = "MANUAL_REVIEW"
          /\ result' = [signals |-> used, decision |-> d]
    BY <2>1, <2>3
  <2>5. Contract!Reply
    <3>1. \A U : Contract!Cardinality(U) = Cardinality(U)
      BY DEF Contract!Cardinality, Cardinality
    <3> QED
      BY <2>1, <2>4, <3>1 DEF Contract!Reply
  <2> QED
    BY <2>5
<1>5. CASE \/ RequestEnds \/ BudgetExpires \/ StageABudgetExpires \/ Finished
           \/ Receive \/ StopWaiting \/ BureauFails \/ LockForBureau \/ CollectBureau
           \/ BuildEvent \/ Publish \/ UNCHANGED vars
  BY <1>5 DEF RequestEnds, BudgetExpires, StageABudgetExpires, Finished, Receive, StopWaiting,
              BureauFails, LockForBureau, CollectBureau, BuildEvent, Publish, vars
<1>6. ASSUME NEW v \in Independent, FetchFails(v) \/ Lock(v) \/ AppendAndUnlock(v) \/ Send(v)
      PROVE  UNCHANGED Contract!vars
  BY <1>6 DEF FetchFails, Lock, AppendAndUnlock, Send
<1> QED
  BY <1>2, <1>3, <1>4, <1>5, <1>6 DEF Next, Goroutine, Request

\* A scoring request answers at most once, with a decision made from vendors
\* that did answer and from enough of them if it is automatic, and what
\* vendors answer later does not change it (domain.go:75-78,
\* pipeline.go:55-63).
THEOREM Refinement == Spec => ImplementsContract
<1> QED
  BY ContractInit, ContractStep, Invariant, PTL DEF Spec, ImplementsContract, Contract!Spec

-----------------------------------------------------------------------------
(* The slice of evidence.                                                  *)

\* Once the fan-in has taken the resolution of every vendor, the slice of
\* evidence is read without a race although without its mutex (scoring.go:62,
\* 94): only a goroutine that Stage A gave up on can still be appending.
THEOREM CompletionIsRaceFree ==
    Spec => [](received = Cardinality(Independent) => EvidenceIsRaceFree)
<1>1. CompletionExact => (received = Cardinality(Independent) => EvidenceIsRaceFree)
  BY DEF CompletionExact, EvidenceIsRaceFree
<1> QED
  BY <1>1, CompletionIsExact, PTL
=============================================================================

------------------------------ MODULE Decision ------------------------------
(* What a set of vendor reports is worth: the bureau's enriched score      *)
(* (src/internal/providers/simulated.go, deriveScore) and the decision     *)
(* (src/internal/scorer/pipeline.go, decide).                              *)
(*                                                                         *)
(* Abstractions.  Scores, weights and confidences are integers on a fixed  *)
(* scale; quotients are compared by cross-multiplication, and the mean the *)
(* bureau blends in is rounded down.  The order in which the reports were  *)
(* collected does not matter to integer sums (it may change the last bits  *)
(* of the code's floating-point ones).                                     *)
EXTENDS Integers, FiniteSets, Functions

CONSTANTS
    ApproveBelow,  \* Config.ApproveBelow, on the scale of scores
    DeclineAbove,  \* Config.DeclineAbove, on the scale of scores
    MinSignals,    \* Config.MinSignals
    MinConfidence  \* Config.MinConfidence, on the scale of confidences

ASSUME ThresholdsAssumption == {ApproveBelow, DeclineAbove} \subseteq 0..100
ASSUME CoverageAssumption   == MinSignals \in Nat /\ MinConfidence \in Nat

Verdict == {"APPROVE", "MANUAL_REVIEW", "DECLINE"}

Severity ==
    [verdict \in Verdict |-> CASE verdict = "APPROVE"       -> 0
                               [] verdict = "MANUAL_REVIEW" -> 1
                               [] verdict = "DECLINE"       -> 2]

Sources(reports) == {r.source : r \in reports}

\* Mutation: scores are not clamped.
clampNot(v, lo, hi) == v

clamp(v, lo, hi) == IF v < lo THEN lo ELSE IF v > hi THEN hi ELSE v

MeanScore(reports) == SumFunction([r \in reports |-> r.score]) \div Cardinality(reports)

\* Mutation: the prior signals count against the vendor's own baseline.
deriveScoreAsGap(base, prior) ==
    IF prior = {} THEN clamp(base, 0, 100) ELSE clamp(2 * base - MeanScore(prior), 0, 100)

\* A vendor's score from its own opinion and the signals it is enriched with:
\* none for an independent vendor, those of Stage A for the dependent one.
deriveScore(base, prior) ==
    IF prior = {} THEN clamp(base, 0, 100)
    ELSE clamp((base + MeanScore(prior)) \div 2, 0, 100)

\* Is the weighted average of the reports' scores at least / at most t?  With
\* no weight at all the score is zero.
WeightTotal(reports) == SumFunction([r \in reports |-> r.weight])
WeightedSum(reports) == SumFunction([r \in reports |-> r.score * r.weight])

ScoreAtLeast(reports, t) ==
    IF WeightTotal(reports) > 0 THEN WeightedSum(reports) >= t * WeightTotal(reports)
                                ELSE t <= 0

ScoreAtMost(reports, t) ==
    IF WeightTotal(reports) > 0 THEN WeightedSum(reports) <= t * WeightTotal(reports)
                                ELSE t >= 0

\* The coverage gate of decide: enough vendors, confident enough on average.
Covered(reports) ==
    /\ reports # {}
    /\ Cardinality(reports) >= MinSignals
    /\ SumFunction([r \in reports |-> r.confidence]) >= MinConfidence * Cardinality(reports)

\* Mutation: the two thresholds are swapped.
decideSwapped(reports) ==
    IF ~Covered(reports) THEN "MANUAL_REVIEW"
    ELSE IF ScoreAtLeast(reports, DeclineAbove) THEN "APPROVE"
    ELSE IF ScoreAtMost(reports, ApproveBelow) THEN "DECLINE"
    ELSE "MANUAL_REVIEW"

decide(reports) ==
    IF ~Covered(reports) THEN "MANUAL_REVIEW"
    ELSE IF ScoreAtLeast(reports, DeclineAbove) THEN "DECLINE"
    ELSE IF ScoreAtMost(reports, ApproveBelow) THEN "APPROVE"
    ELSE "MANUAL_REVIEW"

=============================================================================

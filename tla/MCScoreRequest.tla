--------------------------- MODULE MCScoreRequest ---------------------------
(* ScoreRequest for TLC, with the vendors of providers.DefaultProviders    *)
(* (src/internal/providers/defaults.go): weights are counted in tenths,    *)
(* confidences in hundredths.                                              *)
EXTENDS ScoreRequest

DefaultIndependent == {"identity_verify", "txn_history"}
CreditBureau       == "credit_bureau"
TxnHistory         == {"txn_history"}

\* Opinions at the thresholds, between them, and off the scale on either side;
\* or a single one.
AtTheEdges == {-8, 35, 52, 70, 106}
Middling   == {50}

DefaultWeight ==
    [v \in Independent \cup {Bureau} |-> IF v = Bureau THEN 15 ELSE 10]

DefaultConfidence ==
    [v \in Independent \cup {Bureau} |->
        CASE v = Bureau -> 95 [] v = "txn_history" -> 85 [] OTHER -> 90]
=============================================================================

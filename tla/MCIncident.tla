----------------------------- MODULE MCIncident -----------------------------
(* Incident for TLC: the vendors of providers.DefaultProviders and the     *)
(* budgets of config.Load, in ticks of 20 ms, latencies rounded up.        *)
EXTENDS Incident

DefaultIndependent == {"identity_verify", "txn_history"}
CreditBureau       == "credit_bureau"

DefaultLatency ==
    [v \in Vendors |-> IF v = "credit_bureau" THEN 2 ELSE 3]
=============================================================================

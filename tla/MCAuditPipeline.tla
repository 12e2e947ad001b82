-------------------------- MODULE MCAuditPipeline --------------------------
(* AuditPipeline for TLC.                                                  *)
EXTENDS AuditPipeline, TLC

Interchangeable == Permutations(Consumers)

Decided(n, r, review, providers) ==
    [id |-> n, request |-> r, review |-> review, providers |-> providers]

\* A client reused its request id: two decisions for one id, by different
\* vendors.
ReusedId ==
    [m \in Messages |-> IF m = "m1" THEN Decided(1, "r1", TRUE, {"bureau", "txn"})
                                   ELSE Decided(2, "r1", FALSE, {"txn", "identity"})]
=============================================================================

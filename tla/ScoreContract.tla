--------------------------- MODULE ScoreContract ---------------------------
(* What a scoring request promises its caller (src/internal/domain/        *)
(* domain.go, ScoreResult; src/internal/scorer/pipeline.go, the graceful   *)
(* degradation rules): one reply, computed from the reports of vendors     *)
(* that really answered, automatic only if enough of them did.  Vendors    *)
(* may answer at any time, also after the reply, which no longer changes.  *)
EXTENDS Naturals, FiniteSets

CONSTANTS Vendors, MinSignals, Verdict, NoReply

VARIABLES answered, reply

vars == <<answered, reply>>

Init == answered = {} /\ reply = NoReply

VendorAnswers(v) ==
    /\ v \notin answered
    /\ answered' = answered \cup {v}
    /\ UNCHANGED reply

Reply ==
    /\ reply = NoReply
    /\ \E used \in SUBSET answered, d \in Verdict :
         /\ used = {} \/ Cardinality(used) < MinSignals => d = "MANUAL_REVIEW"
         /\ reply' = [signals |-> used, decision |-> d]
    /\ UNCHANGED answered

Next == Reply \/ \E v \in Vendors : VendorAnswers(v)

Spec == Init /\ [][Next]_vars
=============================================================================

SPECIFICATION FairSpec
CONSTANTS
    ApproveBelow = 35
    DeclineAbove = 70
    MinSignals = 2
    MinConfidence = 88
    Independent <- DefaultIndependent
    Bureau <- CreditBureau
    HasBureau = TRUE
    Deaf <- TxnHistory
    Opinions <- AtTheEdges
    Weight <- DefaultWeight
    Confidence <- DefaultConfidence
INVARIANTS TypeOK CompletionExact WaitsForSomeone EvidenceCoversDecision
INVARIANTS UnanimityDecides NeverMoreLenient
PROPERTIES ImplementsContract Answers NoLeak

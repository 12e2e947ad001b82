SPECIFICATION Spec
CONSTANTS
    ApproveBelow = 35
    DeclineAbove = 70
    MinSignals = 2
    MinConfidence = 60
    Independent <- DefaultIndependent
    Bureau <- CreditBureau
    HasBureau = FALSE
    Deaf = {}
    Opinions <- Middling
    Weight <- DefaultWeight
    Confidence <- DefaultConfidence
INVARIANTS EvidenceIsRaceFree

SPECIFICATION Spec
CONSTANTS
    NoToken = NoToken
    Ids = {"r1"}
    Tokens <- GoodAndFaulty
INVARIANTS TypeOK AccessLogged  ScoredAsCaller
CHECK_DEADLOCK FALSE

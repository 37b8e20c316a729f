SPECIFICATION Spec
CONSTANTS
    Resource <- MCResource
    Covers <- MCCovers
    Node = {n1, n2}
    Env <- MCEnv
    Label = {"ci", "ops"}
    Key = {"k1", "k2", "k3"}
    Cn = {"ci"}
    Endpoint <- MCEndpoint
    Ttl = 1
    MaxTime = 2
    MaxEdits = 2
    MaxTokens = 1
INVARIANTS
    TypeOK
    RetiredFades
    TokenGoodEverywhere
    LastKeyCounts
    DecidesByPrecedence
SYMMETRY Interchangeable
CHECK_DEADLOCK FALSE

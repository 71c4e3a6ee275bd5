SPECIFICATION Spec
CONSTANTS
    None = None
    r1 = r1
    r2 = r2
    r3 = r3
    RequestIds = {r1}
    Turns <- OneTurn
    Turners = {h1}
    Claimers = {c1}
    Workers = {w1, w2}
    Updates <- ManyUpdates
    Tokens = {k1, k2}
    Policies <- SomePolicies
    Deadline = 2
    Grace = 1
    Skew = 0
    MaxOrdinal = 3
    MaxTime = 2
    MaxMessages = 0
    Audiences = {TRUE}
    MaxDecisions = 0
SYMMETRY Interchangeable
INVARIANTS
    UpdatesOnce
    ShownOnce
    OrdinalLeft
PROPERTIES
    RepliesAuthorized
    TurnsAreLeasedWork

SPECIFICATION Spec
ACTION_CONSTRAINT Serial
CONSTANTS
    None = None
    r1 = r1
    r2 = r2
    r3 = r3
    RequestIds = {r1, r2, r3}
    Turns <- ThenAnother
    Turners = {h1}
    Claimers = {c1}
    Workers = {w1}
    Updates <- Replies
    Tokens = {k1, k2}
    Policies <- OnePolicy
    Deadline = 1
    Grace = 1
    Skew = 0
    MaxOrdinal = 2
    MaxTime = 1
    MaxMessages = 1
    Audiences = {TRUE, FALSE}
    MaxDecisions = 1
INVARIANTS
    RepliesCiteToldSources
    OwnRepliesBind
PROPERTIES
    TurnSettles

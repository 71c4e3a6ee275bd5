SPECIFICATION Spec
CONSTANTS
    None = None
    r1 = r1
    r2 = r2
    r3 = r3
    RequestIds = {r1, r2, r3}
    Turns <- ManyTurns
    Turners = {h1, h2}
    Claimers = {c1}
    Workers = {w1}
    Updates <- OneEnding
    Tokens = {k1, k2}
    Policies <- OnePolicy
    Deadline = 1
    Grace = 1
    Skew = 1
    MaxOrdinal = 2
    MaxTime = 1
    MaxMessages = 1
    Audiences = {TRUE}
    MaxDecisions = 0
SYMMETRY Interchangeable
INVARIANTS
    TypeOK
    ConversationMatchesTask
    ToldOnce
    TurnsOnce

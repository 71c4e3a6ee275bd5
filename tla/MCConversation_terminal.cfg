SPECIFICATION Spec
CONSTANTS
    None = None
    r1 = r1
    r2 = r2
    r3 = r3
    RequestIds = {r1}
    Turns <- OneTurn
    Turners = {h1}
    Claimers = {c1}
    Workers = {w1}
    Updates <- OneEnding
    Tokens = {k1}
    Policies <- OnePolicy
    Deadline = 1
    Grace = 1
    Skew = 0
    MaxOrdinal = 2
    MaxTime = 2
    MaxMessages = 0
    Audiences = {TRUE}
    MaxDecisions = 0
SYMMETRY Interchangeable
INVARIANTS
    NoConflictingResults

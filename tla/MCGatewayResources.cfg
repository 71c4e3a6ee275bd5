SPECIFICATION Spec
ACTION_CONSTRAINT Scope
CONSTANTS
    None = None
    NoEvent = NoEvent
    q1 = q1
    q2 = q2
    q3 = q3
    Requests = {q1, q2, q3}
    Kinds <- AllKinds
    Connections = 2
    MaxWrites = 2
    Capacity = 2
INVARIANTS
    TypeOK
    OnlyThePoolStalls
PROPERTIES
    EngineFollowsCommits
    HandlersEnd

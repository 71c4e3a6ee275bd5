SPECIFICATION Spec
ACTION_CONSTRAINT Scope
CONSTANTS
    None = None
    a1 = a1
    a2 = a2
    s1 = s1
    s2 = s2
    Sessions = {s1, s2}
    Actors = {a1, a2}
    ActorOf <- OneActor
    Cursors = {0, 2}
    Audiences <- RoomAndTargeted
    BatchSizes = {1, 2}
    Capacity = 2
    MaxEvents = 3
    Faults = TRUE
INVARIANTS
    StreamIsExact
    NothingForgotten
    PresenceCounts
PROPERTIES
    PublishedIsDelivered
    TimersEndSessions

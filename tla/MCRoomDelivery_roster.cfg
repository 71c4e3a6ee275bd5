SPECIFICATION Spec
CONSTANTS
    None = None
    a1 = a1
    a2 = a2
    s1 = s1
    s2 = s2
    Sessions = {s1, s2}
    Actors = {a1, a2}
    ActorOf <- TwoActors
    Cursors = {0}
    Audiences <- RoomWide
    BatchSizes = {1}
    Capacity = 2
    MaxEvents = 0
    Faults = FALSE
INVARIANTS
    SettledRosterIsCurrent

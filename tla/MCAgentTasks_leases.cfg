SPECIFICATION Spec
ACTION_CONSTRAINT Scope
CONSTANTS
    None = None
    Tasks = {t1, t2}
    Rooms = {r1}
    RoomOf <- OneRoom
    Tokens = {k1, k2}
    Claimers = {c1}
    Updaters = {u1, u2}
    Updates <- FewUpdates
    LeaseDuration = 1
    Skew = 1
    MaxTime = 2
SYMMETRY Interchangeable
INVARIANTS
    TypeOK
    TerminalIsFinal
PROPERTIES
    HeadNotSkipped
    TasksAreLeasedWork

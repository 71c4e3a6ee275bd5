SPECIFICATION Spec
CONSTANTS
    None = None
    Tasks = {t1}
    Rooms = {r1}
    RoomOf <- OneRoom
    Tokens = {k1, k2}
    Claimers = {c1}
    Updaters = {u1}
    Updates <- HandoffUpdates
    LeaseDuration = 1
    Skew = 1
    MaxTime = 2
SYMMETRY Interchangeable
INVARIANTS
    DocumentedOrder

SPECIFICATION Spec
CONSTANTS
    None = None
    d1 = d1
    d2 = d2
    r1 = r1
    r2 = r2
    r3 = r3
    Handlers = {h1, h2}
    RequestIds = {r1, r2, r3}
    DecisionIds = {d1, d2}
    TaskIds = {t1, t2}
    Requests <- RoomRequests
INVARIANTS
    TypeOK
    SequencesContiguous
    ExactlyOnce
    HistoryMatchesTable
    ContextEndsAtRequest
PROPERTIES
    DecisionLifecycle
    TaskContextFixed
    RequestsAreAtomic

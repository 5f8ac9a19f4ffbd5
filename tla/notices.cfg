SPECIFICATION Spec
CHECK_DEADLOCK FALSE
CONSTANTS
    w1 = w1
    w2 = w2
    v1 = v1
    off = off
    Workers = {w1, w2}
    Nobody = Nobody
    Versions = {v1, off}
    Cancelled = off
    Order <- TwoRoutes
    MaxChanges = 2
    MaxEvents = 1
    MaxFaults = 1
INVARIANTS
    OneCopy
    FailureIsSeen
PROPERTIES
    NoticeIsCurrent
    EventsEnd

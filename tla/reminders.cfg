SPECIFICATION Spec
CHECK_DEADLOCK FALSE
CONSTANTS
    b1 = b1
    w1 = w1
    w2 = w2
    Bookings = {b1}
    Starts = {4, 6}
    Workers = {w1, w2}
    Nobody = Nobody
    Absent = Absent
    NeedsOptIn = TRUE
    LeadTime = 3
    MaxTaskDelay = 1
    Lease = 2
    RequestTime = 1
    Skew = 0
    MaxTime = 5
    MaxEvents = 1
    MaxFaults = 1
INVARIANTS
    ChainAlive
    OneDeliveryAtATime
    DuplicatesAreExplained
PROPERTIES
    SentIsCurrent
    MovedIsReplanned
    EveryReminderEnds

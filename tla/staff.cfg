SPECIFICATION Spec
CONSTANTS
    r1 = r1
    r2 = r2
    i1 = i1
    i2 = i2
    d1 = d1
    s1 = s1
    e1 = e1
    d2 = d2
    Requests = {r1, r2}
    Instances = {i1, i2}
    InstanceOf <- TwoInstances
    Deliveries = {d1}
    StaffReplies = {s1}
    Echoes = {e1}
    Commands <- TakeAndResume
    Lock = Lock
    NoRequest = NoRequest
    NoDelivery = NoDelivery
    NoWork = NoWork
    ClaimTTL = 2
    TurnTimeout = 1
    HandoffTimeout = 1
    SendErrorsClassified = TRUE
    ChannelCanFail = FALSE
    UnknownChanges = TRUE
    MaxFaults = 1
    MaxCommands = 1
INVARIANTS
    AnsweredOnce
PROPERTIES
    TakeoverSilencesAssistant
    TakeoverHolds

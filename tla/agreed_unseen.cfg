SPECIFICATION Spec
CHECK_DEADLOCK FALSE
SYMMETRY PhoneSymmetry
CONSTANTS
    Nothing = Nothing
    p1 = p1
    p2 = p2
    Phones = {p1, p2}
    Slots = {1, 2}
    MaxDraftAge = 0
    RepeatsRecognised = TRUE
    AnswersUnreadable = FALSE
    MaxMessages = 2
    MaxProposals = 2
    MaxAppointments = 2
    MaxTools = 1
    MaxFaults = 0
    MaxEvents = 0
    Horizon = 1
    Texts <- AllTexts
INVARIANTS
    AgreedAfterSummary

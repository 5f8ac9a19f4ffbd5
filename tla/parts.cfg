CONSTANTS
    Chats = {c1, c2}
    Phones = {p1, p2}
    Numbers = {p1}
    None = None
    Requests = {r1, r2}
    Asked = {p1}
    TelegramAccount = TRUE
    MaxOperations = 6
    MaxSends = 2
    MaxAttempts = 2
    MaxHours = 2
    MaxGuesses = 6
    Probes = {b1, b2}
    MaxChanges = 5
    Jobs = {j1, j2}
    MaxSmsFaults = 4
    Sends = {s1, s2}
    MaxInstalls = 2
    MaxAccountFaults = 3
    ClientChats = {1, 2, 3}
    ReadChats = {1}
    Entries = {1, 2, 3}
    Limit = 1
    MaxClock = 2
    MaxPages = 4
    x = x
    y = y
    z = z
    face = face
    body = body
    Services = {x, y, z}
    CategoryOf <- MCCategoryOf
    Staff = {q1, q2}
    Dates = {d1}
    Nothing = Nothing
    PageSize = 1
    RootSize = 1
    MaxPage = 2
    MaxTools = 1
    MaxFaults = 1
SPECIFICATION MCSpec
SYMMETRY Symmetry
CHECK_DEADLOCK FALSE
INVARIANTS
    TypeOK
    RouteIsProven
    WithdrawalHolds
    GuessingIsLimited
    ToldOnce
    InstalledSessionSurvives
    WalksMissNothing
    NumbersMeanWhatIsShown
    TimesBelongTogether
    DraftIsNewerThanChoice
PROPERTIES
    ProbesAreCurrent

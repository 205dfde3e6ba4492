\* Names and passwords around their limits, in transactions of uploads and shares.
SPECIFICATION Spec
CONSTANTS
    f1 = f1
    f2 = f2
    w1 = w1
    w2 = w2
    w3 = w3
    FileIds = {f1, f2}
    NoFile = NoFile
    Names = {4, 7, 9, 101}
    Passwords = {5, 6, 8}
    Length <- MCLength
    Workers = {w1, w2}
    Registered <- One
    Stored <- OneFile
    Offered = {"upload", "signUp", "share", "list", "users", "current"}
    MemberLists <- NoMembers
    MaxUser = 2
    MaxGroup = 0
    MaxRequests = 3
    MaxCrashes = 1
SYMMETRY WorkerSymmetry
CHECK_DEADLOCK FALSE
INVARIANTS
    TokenMatchesUser
PROPERTIES
    OnlyRestartRecovers

\* Three requests at once in one transaction; user 2 does not exist.
SPECIFICATION Spec
CONSTANTS
    f1 = f1
    f2 = f2
    w1 = w1
    w2 = w2
    w3 = w3
    FileIds = {f1, f2}
    NoFile = NoFile
    Names = {7, 9}
    Passwords = {8}
    Length <- MCLength
    Workers = {w1, w2, w3}
    Registered <- One
    Stored <- OneFile
    Offered = {"folder", "share"}
    MemberLists <- NoMembers
    MaxUser = 2
    MaxGroup = 0
    MaxRequests = 5
    MaxCrashes = 1
SYMMETRY WorkerSymmetry
CHECK_DEADLOCK FALSE
INVARIANTS
    AckDurable
    AbandonedTransaction
PROPERTIES
    RollbackAfterFailure
    OnlyRestartRecovers

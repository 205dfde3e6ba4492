\* Refuted: lengths must exceed 6 and 5.
SPECIFICATION Spec
CONSTANTS
    f1 = f1
    f2 = f2
    w1 = w1
    w2 = w2
    w3 = w3
    FileIds = {f1}
    NoFile = NoFile
    Names = {5, 6, 7}
    Passwords = {6, 8}
    Length <- MCLength
    Workers = {w1, w2}
    Registered <- One
    Stored <- OneFile
    Offered = {"signUp"}
    MemberLists <- NoMembers
    MaxUser = 0
    MaxGroup = 0
    MaxRequests = 2
    MaxCrashes = 0
SYMMETRY WorkerSymmetry
CHECK_DEADLOCK FALSE
INVARIANTS
    LengthsExceedMinimum

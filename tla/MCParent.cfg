\* Refuted: a file's parent references a file.
SPECIFICATION Spec
CONSTANTS
    f1 = f1
    f2 = f2
    w1 = w1
    w2 = w2
    w3 = w3
    FileIds = {f1, f2}
    NoFile = NoFile
    Names = {7, 9}
    Passwords = {8}
    Length <- MCLength
    Workers = {w1, w2}
    Registered <- One
    Stored <- NoFiles
    Offered = {"folder"}
    MemberLists <- NoMembers
    MaxUser = 0
    MaxGroup = 0
    MaxRequests = 2
    MaxCrashes = 0
SYMMETRY WorkerSymmetry
CHECK_DEADLOCK FALSE
INVARIANTS
    ParentIsFile

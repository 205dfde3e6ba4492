\* Two users, a file of the first: upload, share and download race, with a crash.
SPECIFICATION Spec
CONSTANTS
    f1 = f1
    f2 = f2
    w1 = w1
    w2 = w2
    w3 = w3
    FileIds = {f1, f2}
    NoFile = NoFile
    Names = {7, 9}
    Passwords = {8}
    Length <- MCLength
    Workers = {w1, w2}
    Registered <- Two
    Stored <- OneFile
    Offered = {"upload", "folder", "share", "download"}
    MemberLists <- NoMembers
    MaxUser = 2
    MaxGroup = 0
    MaxRequests = 3
    MaxCrashes = 1
SYMMETRY WorkerSymmetry
CHECK_DEADLOCK FALSE
INVARIANTS
    TypeOK
    RowHasBlob
    AccessAuthorised

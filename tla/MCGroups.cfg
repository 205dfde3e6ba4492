\* Groups with no, one, a repeated and an unknown member; access through a group.
SPECIFICATION Spec
CONSTANTS
    f1 = f1
    f2 = f2
    w1 = w1
    w2 = w2
    w3 = w3
    FileIds = {f1}
    NoFile = NoFile
    Names = {7, 9}
    Passwords = {8}
    Length <- MCLength
    Workers = {w1, w2}
    Registered <- Two
    Stored <- OneFile
    Offered = {"group", "share", "download"}
    MemberLists <- MCMembers
    MaxUser = 0
    MaxGroup = 1
    MaxRequests = 4
    MaxCrashes = 1
SYMMETRY WorkerSymmetry
CHECK_DEADLOCK FALSE
INVARIANTS
    AccessAuthorised
    AckDurable
    AbandonedTransaction
    GroupsListed
PROPERTIES
    ImplementsSharedStore
